---------------------------- MODULE Spec2Model ----------------------------
(***************************************************************************)
(* disrecord: a voice bot that records whitelisted speakers into per-user  *)
(* ring buffers and serves them as WAV attachments.                        *)
(*                                                                         *)
(* The adapter (src/src/main.rs) is modelled from its code.  The Recorder, *)
(* the WAV codec and the options live in recorder.rs, wav.rs and           *)
(* options.rs, which are not part of the sources at hand; they are         *)
(* modelled from spec.md (sections 3, 4.1, 4.2 and 5).                     *)
(*                                                                         *)
(* The Soundboard (soundboard.rs) is not part of the sources either; it is *)
(* modelled from spec.md (sections 3, 4.3 and 5).                          *)
(*                                                                         *)
(* The specifications share the variables:                                 *)
(*   Spec         the adapter's commands and voice events feeding the      *)
(*                Recorder through its action queue                        *)
(*   SpecDownmix  the stereo-to-mono conversion of Handler::act            *)
(*   SpecChunk    the splitting and packaging done by Handler::download    *)
(*   SpecVoice    listen, voice-state updates and auto-leave               *)
(*   SpecSound    the soundboard commands and the sound buttons            *)
(*   SpecIndex    the ordering of the sounds of a group under add          *)
(*   SpecCache    the sound cache and its eviction loop                    *)
(*   SpecGuildless  each guild-only interaction with and without a guild   *)
(*   SpecOptIn    every command and event of the adapter next to the       *)
(*                recorder's whitelist                                     *)
(*   SpecRender   the messages, rows and buttons of Handler::list_sounds   *)
(*   SpecListen   repeated listen commands and the events of the Call      *)
(*   SpecIndexOption  uploads whose index option takes any integer         *)
(*   SpecLive     Spec's requests under fair scheduling of the recorder    *)
(*                and of the handlers that wait for a reply                *)
(***************************************************************************)
EXTENDS Integers, Sequences, FiniteSets, TLC

VARIABLES
    \* --- Recorder (spec.md 4.2) ---
    queue,          \* the unbounded mpsc queue of Actions, oldest first
    recorder_alive, \* the recorder task still owns the receiving end
    ssrc_map,       \* SSRC -> UserId map
    whitelist,      \* set of opted-in users
    buffers,        \* per-user ring buffer
    \* --- adapter (main.rs) ---
    replies,        \* one-shot reply channels, by request id
    tasks,          \* download / list handlers suspended on a reply
    panic_log,      \* panic messages logged by log_panics
    exit_code,      \* "running", or the ExitCode main returned
    \* --- history of the run (not program state) ---
    n_events,       \* events handled so far; stamps them in order
    join_at,        \* per user, stamp of the latest join command
    leave_at,       \* per user, stamp of the latest leave command
    buf_stamps,     \* per user, the stamp of the packet each buffered sample came in
    hist,           \* per user, the samples retained since the buffer was created
    accepted_at,    \* per user, stamp of the latest packet retained
    dropped,        \* ssrcs a remap took from their user, not mapped since
    last,           \* the action the recorder processed last
    \* --- SpecDownmix ---
    packet_audio,   \* the decoded stereo samples of one voice packet
    mono,           \* what act() puts into RegisterVoiceData
    \* --- SpecChunk ---
    snapshot,       \* the data a download received
    files,          \* the attachments it sent
    \* --- SpecVoice ---
    voice_states,   \* cache: guild -> member -> voice channel
    registered,     \* guild -> how many global event handlers its Call has, by event
    conn,           \* songbird: guild -> channel the bot is connected to
    calls,          \* songbird: guilds that have a Call
    pending,        \* voice-state updates dispatched, handler not yet run
    handled,        \* the update handled in the latest step, if it was one
    voice_out,      \* the reply or panic of the latest step
    \* --- Soundboard (spec.md 4.3) ---
    catalog,        \* the Sound records of all guilds, in insertion order
    blobs,          \* sounds_dir_path/{id}: the WAV file of each sound
    cache,          \* the sound cache: id -> (bytes, last access)
    now,            \* the clock the cache reads
    next_id,        \* how many sound ids were generated so far
    \* --- history of the soundboard handlers (not program state) ---
    accessed_at,    \* per sound id, the time of the latest get_wav that served it
    sound_out       \* what the latest sound handler did

vars == <<queue, recorder_alive, ssrc_map, whitelist, buffers, replies, tasks,
          panic_log, exit_code, n_events, join_at, leave_at, buf_stamps,
          hist, accepted_at, dropped, last, packet_audio, mono, snapshot, files,
          voice_states, registered, conn, calls, pending, handled, voice_out,
          catalog, blobs, cache, now, next_id, accessed_at, sound_out>>

recorderVars == <<queue, recorder_alive, ssrc_map, whitelist, buffers, replies,
                  tasks, panic_log, exit_code, n_events, join_at, leave_at,
                  buf_stamps, hist, accepted_at, dropped, last>>
downmixVars == <<packet_audio, mono>>
chunkVars == <<snapshot, files>>
voiceVars == <<voice_states, registered, conn, calls, pending, handled, voice_out>>
soundVars == <<catalog, blobs, cache, now, next_id, accessed_at, sound_out>>

None == "None"

Min(a, b) == IF a <= b THEN a ELSE b

-----------------------------------------------------------------------------
(* Bounds of the model *)

\* longest stereo packet drawn in SpecDownmix
MaxPacketLen == 4
\* longest snapshot drawn in SpecChunk
MaxSnapshot == 5
\* events (commands, voice events) the adapter handles in one run of Spec
MaxEvents == 4
\* voice_buffer_duration x SR, in samples, scaled down
Capacity == 2
\* voice-state updates dispatched whose handler has not run yet
MaxPending == 2
\* MAX_FILE_SIZE scaled down so that a snapshot of a few samples is split
ScaledMaxFileSize == 49
\* commands and voice events that reach the recorder in SpecOptIn
MaxOptInEvents == 3
\* sound ids generated in one run (successful adds)
MaxSounds == 4
\* sounds of one group in the listings of SpecRender
MaxGroupSize == 21

\* the index option of an upload lies in -MaxIndexOption..MaxIndexOption
MaxIndexOption == 2

\* sound_cache_duration, in ticks of the clock
SoundCacheDuration == 2
\* the 26 characters of a Ulid's text, scaled down
ScaledUlidLen == 2
\* the 64 bits of usize, scaled down
ScaledUsizeBits == 6

-----------------------------------------------------------------------------
(* Machine integers *)

I16Min == -32768
I16Max == 32767
I32Min == -2147483647 - 1
I32Max == 2147483647

\* `as i16`: keep the low 16 bits, two's complement
WrapI16(x) == ((x + 32768) % 65536) - 32768

\* Rust's integer `/`: the quotient truncated toward zero
DivTrunc(x, d) == IF x >= 0 THEN x \div d ELSE -((-x) \div d)

-----------------------------------------------------------------------------
(* Handler::act, the VoicePacket arm: stereo to mono *)

\* DownmixPair with the halving rounded down instead of toward zero
DownmixPairFloor(l, r) == WrapI16((l + r) \div 2)

\* ((cs[0] as i32 + cs[1] as i32) / 2) as i16.  Both operands are
\* sign-extended 16-bit values, so the i32 sum is their exact sum.
DownmixPair(l, r) == WrapI16(DivTrunc(l + r, 2))

\* audio.chunks_exact(2).map(..).collect(): one sample per complete pair,
\* a trailing odd sample is dropped
Downmix(audio) ==
    [k \in 1..(Len(audio) \div 2) |-> DownmixPair(audio[2 * k - 1], audio[2 * k])]

-----------------------------------------------------------------------------
(* wav.rs (spec.md 4.1): the canonical 44-byte RIFF/WAVE header and the    *)
(* little-endian body                                                      *)

HEADER_SIZE == 44
SAMPLE_RATE == 48000

LE32(n) == <<n % 256, (n \div 256) % 256, (n \div 65536) % 256, (n \div 16777216) % 256>>
LE16(n) == <<(n % 65536) % 256, (n % 65536) \div 256>>

\* "RIFF" size "WAVE" "fmt " 16 PCM mono rate byte-rate block-align bits "data" size
WavHeader(body_len) ==
    <<82, 73, 70, 70>> \o LE32(36 + body_len) \o <<87, 65, 86, 69>>
    \o <<102, 109, 116, 32>> \o LE32(16) \o LE16(1) \o LE16(1)
    \o LE32(SAMPLE_RATE) \o LE32(2 * SAMPLE_RATE) \o LE16(2) \o LE16(16)
    \o <<100, 97, 116, 97>> \o LE32(body_len)

WavBody(samples) ==
    [i \in 1..(2 * Len(samples)) |->
        IF i % 2 = 1 THEN LE16(samples[(i + 1) \div 2])[1]
                     ELSE LE16(samples[i \div 2])[2]]

\* wav::package
Package(samples) == WavHeader(2 * Len(samples)) \o WavBody(samples)

FromLE16(lo, hi) ==
    LET u == lo + 256 * hi IN IF u >= 32768 THEN u - 65536 ELSE u

\* the samples held by the body of a packaged file
BodySamples(bytes) ==
    [k \in 1..((Len(bytes) - HEADER_SIZE) \div 2) |->
        FromLE16(bytes[HEADER_SIZE + 2 * k - 1], bytes[HEADER_SIZE + 2 * k])]

-----------------------------------------------------------------------------
(* Handler::download: splitting a snapshot into attachments *)

\* 24 * (1 << 20) in the source; scaled, see ScaledMaxFileSize
MAX_FILE_SIZE == ScaledMaxFileSize

\* ChunkSize without the room for the header
ChunkSizeNoHeader == MAX_FILE_SIZE \div 2

\* (MAX_FILE_SIZE - wav::HEADER_SIZE) / 2, in usize
ChunkSize == (MAX_FILE_SIZE - HEADER_SIZE) \div 2

\* slice::chunks(n): consecutive pieces of n elements, the last one shorter
Chunks(data, n) ==
    [i \in 1..((Len(data) + n - 1) \div n) |->
        SubSeq(data, (i - 1) * n + 1, Min(i * n, Len(data)))]

\* Filename that never numbers the file
FilenameUnnumbered(name, part) == [user |-> name, part |-> 0]

\* part 0 stands for "{name}.wav", part i >= 1 for "{name}-{i}.wav"
Filename(name, part) == [user |-> name, part |-> part]

\* the followup messages of one download, in the order sent
Attachments(name, data) ==
    LET cs == Chunks(data, ChunkSize) IN
    [i \in DOMAIN cs |->
        [filename |-> IF Len(data) <= ChunkSize THEN Filename(name, 0)
                                                ELSE Filename(name, i),
         data |-> Package(cs[i])]]

-----------------------------------------------------------------------------
(* The world of Spec *)

Users == {"u1", "u2"}
Ssrcs == {1, 2}
Guilds == {"g1", "g2"}
Bot == "bot"

\* ctx.cache.guild(g).members
GuildMembers(g) == IF g = "g1" THEN {Bot, "u1"} ELSE {Bot, "u1", "u2"}

\* the decoded audio a voice packet may carry
PacketAudios == {<<1, 1>>, <<2, 2, 3, 4, 5, 5>>}

\* packet.audio: Option<Vec<i16>>
SomeAudio(a) == [some |-> TRUE, samples |-> a]
NoAudio == [some |-> FALSE, samples |-> <<>>]
AudioOptions == {SomeAudio(a) : a \in PacketAudios} \cup {NoAudio}

EventIds == 1..MaxEvents

-----------------------------------------------------------------------------
(* recorder::Action *)

Msg(kind, user, ssrc, samples, tx, at) ==
    [kind |-> kind, user |-> user, ssrc |-> ssrc, samples |-> samples,
     tx |-> tx, at |-> at]

MapUser(user, ssrc, at) == Msg("MapUser", user, ssrc, <<>>, 0, at)
RegisterVoiceData(ssrc, samples, at) == Msg("RegisterVoiceData", None, ssrc, samples, 0, at)
AddToWhitelist(user, at) == Msg("AddToWhitelist", user, 0, <<>>, 0, at)
RemoveFromWhitelist(user, at) == Msg("RemoveFromWhitelist", user, 0, <<>>, 0, at)
GetWhitelist(tx, at) == Msg("GetWhitelist", None, 0, <<>>, tx, at)
GetData(user, tx, at) == Msg("GetData", user, 0, <<>>, tx, at)

-----------------------------------------------------------------------------
(* The Recorder (spec.md 4.2) *)

NoBuffer == [present |-> FALSE, data |-> <<>>]

\* append, then evict from the front down to the capacity
RingPush(data, samples) ==
    LET all == data \o samples
        keep == Min(Len(all), Capacity)
    IN  SubSeq(all, Len(all) - keep + 1, Len(all))

\* MapUserApply that keeps an older ssrc of the user
MapUserKeepOld(map, user, ssrc) == [map EXCEPT ![ssrc] = user]

\* MapUser: record/overwrite ssrc -> user; an older ssrc of the user is dropped
MapUserApply(map, user, ssrc) ==
    [s \in Ssrcs |-> IF s = ssrc THEN user
                     ELSE IF map[s] = user THEN None ELSE map[s]]

\* Accepts without the whitelist gate
AcceptsUngated(map, wl, ssrc) == map[ssrc] # None

\* RegisterVoiceData is retained only for a mapped, whitelisted user
Accepts(map, wl, ssrc) == map[ssrc] # None /\ map[ssrc] \in wl

\* RemoveFromWhitelist discards the user's ring buffer
Discard(bufs, user) == [bufs EXCEPT ![user] = NoBuffer]

\* GetData: the contents, or None if there is no buffer or it is empty
GetDataValue(buf) ==
    IF buf.present /\ buf.data # <<>> THEN [some |-> TRUE, data |-> buf.data]
                                       ELSE [some |-> FALSE, data |-> <<>>]

\* GetData does not clear the buffer
GetDataLeaves(bufs, user) == bufs

\* a one-shot channel: state, the value sent (some/data or set), and for
\* the history the stamps and the retained samples behind the value
EmptyReply == [state |-> "empty", some |-> FALSE, data |-> <<>>, set |-> {},
               stamps |-> <<>>, hist |-> <<>>]
ClosedReply == [EmptyReply EXCEPT !.state = "closed"]

NoLast == [kind |-> "none", user |-> None, ssrc |-> 0, at |-> 0, accepted |-> FALSE]

RecorderStep ==
    /\ exit_code = "running"
    /\ recorder_alive
    /\ queue # <<>>
    /\ LET a == Head(queue)
           u == IF a.kind = "RegisterVoiceData" THEN ssrc_map[a.ssrc] ELSE a.user
           ok == a.kind = "RegisterVoiceData" /\ Accepts(ssrc_map, whitelist, a.ssrc)
       IN
       /\ queue' = Tail(queue)
       /\ last' = [kind |-> a.kind, user |-> u, ssrc |-> a.ssrc, at |-> a.at,
                   accepted |-> ok]
       /\ ssrc_map' = IF a.kind = "MapUser" THEN MapUserApply(ssrc_map, a.user, a.ssrc)
                      ELSE ssrc_map
       /\ whitelist' = CASE a.kind = "AddToWhitelist" -> whitelist \cup {a.user}
                         [] a.kind = "RemoveFromWhitelist" -> whitelist \ {a.user}
                         [] OTHER -> whitelist
       /\ buffers' = CASE ok ->
                            [buffers EXCEPT ![u] = [present |-> TRUE,
                                                    data |-> RingPush(@.data, a.samples)]]
                       [] a.kind = "RemoveFromWhitelist" -> Discard(buffers, a.user)
                       [] a.kind = "GetData" -> GetDataLeaves(buffers, a.user)
                       [] OTHER -> buffers
       /\ buf_stamps' = CASE ok ->
                            [buf_stamps EXCEPT ![u] =
                                RingPush(@, [i \in 1..Len(a.samples) |-> a.at])]
                       [] a.kind \in {"RemoveFromWhitelist", "GetData"} ->
                            [x \in Users |-> IF buffers'[x].present THEN buf_stamps[x]
                                             ELSE <<>>]
                       [] OTHER -> buf_stamps
       /\ hist' = CASE ok -> [hist EXCEPT ![u] = @ \o a.samples]
                    [] a.kind = "RemoveFromWhitelist" -> [hist EXCEPT ![a.user] = <<>>]
                    [] OTHER -> hist
       /\ accepted_at' = IF ok THEN [accepted_at EXCEPT ![u] = a.at] ELSE accepted_at
       /\ dropped' = IF a.kind = "MapUser"
                     THEN (dropped \cup {s \in Ssrcs : ssrc_map[s] = a.user}) \ {a.ssrc}
                     ELSE dropped
       /\ replies' = CASE a.kind = "GetWhitelist" ->
                            [replies EXCEPT ![a.tx] =
                                [EmptyReply EXCEPT !.state = "sent", !.set = whitelist]]
                       [] a.kind = "GetData" ->
                            [replies EXCEPT ![a.tx] =
                                [EmptyReply EXCEPT
                                    !.state = "sent",
                                    !.some = GetDataValue(buffers[a.user]).some,
                                    !.data = GetDataValue(buffers[a.user]).data,
                                    !.stamps = IF GetDataValue(buffers[a.user]).some
                                               THEN buf_stamps[a.user] ELSE <<>>,
                                    !.hist = hist[a.user]]]
                       [] OTHER -> replies
    /\ UNCHANGED <<recorder_alive, tasks, panic_log, exit_code, n_events, join_at,
                   leave_at>>
    /\ UNCHANGED <<downmixVars, chunkVars, voiceVars, soundVars>>

\* Tick: drop the ring buffers whose last activity is older than
\* voice_buffer_expiration.  Any amount of time may pass between two steps,
\* so the expired buffers are any of the present ones.
RecorderTick(expired) ==
    /\ exit_code = "running"
    /\ recorder_alive
    /\ expired # {}
    /\ \A u \in expired : buffers[u].present
    /\ buffers' = [u \in Users |-> IF u \in expired THEN NoBuffer ELSE buffers[u]]
    /\ buf_stamps' = [u \in Users |-> IF u \in expired THEN <<>> ELSE buf_stamps[u]]
    /\ hist' = [u \in Users |-> IF u \in expired THEN <<>> ELSE hist[u]]
    /\ last' = [NoLast EXCEPT !.kind = "Tick"]
    /\ UNCHANGED <<queue, recorder_alive, ssrc_map, whitelist, replies, tasks,
                   panic_log, exit_code, n_events, join_at, leave_at, accepted_at,
                   dropped>>
    /\ UNCHANGED <<downmixVars, chunkVars, voiceVars, soundVars>>

\* The recorder task ends: the receiving end of the queue and the reply
\* senders still queued are dropped.
RecorderDies ==
    /\ exit_code = "running"
    /\ recorder_alive
    /\ recorder_alive' = FALSE
    /\ queue' = <<>>
    /\ replies' = [t \in EventIds |->
                      IF \E i \in 1..Len(queue) :
                            queue[i].tx = t /\ queue[i].kind \in {"GetWhitelist", "GetData"}
                      THEN ClosedReply ELSE replies[t]]
    /\ UNCHANGED <<ssrc_map, whitelist, buffers, buf_stamps, hist, accepted_at,
                   dropped, tasks, panic_log, exit_code, n_events, join_at,
                   leave_at, last>>
    /\ UNCHANGED <<downmixVars, chunkVars, voiceVars, soundVars>>

-----------------------------------------------------------------------------
(* The adapter: Handler (main.rs) *)

NoOutput == [text |-> "", mentions |-> {}, data |-> <<>>, files |-> <<>>]

IdleTask == [kind |-> "none", pc |-> "idle", user |-> None, guild |-> None,
             seen_join |-> [u \in Users |-> 0], seen_leave |-> [u \in Users |-> 0],
             out |-> NoOutput]

\* the panics of a failed recorder_actions_tx.send(..).expect(..)
SendFailures == {"Event dispatch error", "List request failure",
                 "Adding to whitelist failed", "Leaving whitelist failed",
                 "Download request failure"}

\* Send that puts the message at the front of the queue
SendFront(msg, expect) ==
    IF recorder_alive
    THEN /\ queue' = <<msg>> \o queue
         /\ panic_log' = panic_log
    ELSE /\ queue' = queue
         /\ panic_log' = panic_log \cup {expect}

\* recorder_actions_tx.send(msg).expect(expect): the send fails once the
\* receiving end is gone, and expect() then panics in the handler's task
Send(msg, expect) ==
    IF recorder_alive
    THEN /\ queue' = Append(queue, msg)
         /\ panic_log' = panic_log
    ELSE /\ queue' = queue
         /\ panic_log' = panic_log \cup {expect}

\* every event handled while the process runs gets the next stamp
Stamp == n_events + 1

Handles ==
    /\ exit_code = "running"
    /\ n_events < MaxEvents
    /\ n_events' = Stamp

\* act(), SpeakingStateUpdate arm
SpeakingStateUpdate(user, ssrc) ==
    /\ Handles
    /\ IF user # None
       THEN Send(MapUser(user, ssrc, Stamp), "Event dispatch error")
       ELSE UNCHANGED <<queue, panic_log>>
    /\ UNCHANGED <<recorder_alive, ssrc_map, whitelist, buffers, replies, tasks,
                   exit_code, join_at, leave_at, buf_stamps, hist, accepted_at, dropped, last>>
    /\ UNCHANGED <<downmixVars, chunkVars, voiceVars, soundVars>>

\* act(), VoicePacket arm
VoicePacket(ssrc, audio) ==
    /\ Handles
    /\ IF audio.some
       THEN Send(RegisterVoiceData(ssrc, Downmix(audio.samples), Stamp),
                 "Event dispatch error")
       ELSE UNCHANGED <<queue, panic_log>>
    /\ UNCHANGED <<recorder_alive, ssrc_map, whitelist, buffers, replies, tasks,
                   exit_code, join_at, leave_at, buf_stamps, hist, accepted_at, dropped, last>>
    /\ UNCHANGED <<downmixVars, chunkVars, voiceVars, soundVars>>

\* JoinMsg with the wrong action
JoinMsgRemoves(user, at) == RemoveFromWhitelist(user, at)

\* JoinMsg that names a fixed user instead of the caller
JoinMsgOther(user, at) == AddToWhitelist("u2", at)

\* join: Action::AddToWhitelist(command.user.id)
JoinMsg(user, at) == AddToWhitelist(user, at)

\* LeaveMsg with the wrong action
LeaveMsgAdds(user, at) == AddToWhitelist(user, at)

\* leave: Action::RemoveFromWhitelist(command.user.id)
LeaveMsg(user, at) == RemoveFromWhitelist(user, at)

\* join(): send, then the reply "You are now in the whitelist."
Join(user) ==
    /\ Handles
    /\ Send(JoinMsg(user, Stamp), "Adding to whitelist failed")
    /\ join_at' = IF recorder_alive THEN [join_at EXCEPT ![user] = Stamp] ELSE join_at
    /\ UNCHANGED <<recorder_alive, ssrc_map, whitelist, buffers, replies, tasks,
                   exit_code, leave_at, buf_stamps, hist, accepted_at, dropped, last>>
    /\ UNCHANGED <<downmixVars, chunkVars, voiceVars, soundVars>>

\* leave(): send, then the reply "You have been removed from the whitelist."
Leave(user) ==
    /\ Handles
    /\ Send(LeaveMsg(user, Stamp), "Leaving whitelist failed")
    /\ leave_at' = IF recorder_alive THEN [leave_at EXCEPT ![user] = Stamp] ELSE leave_at
    /\ UNCHANGED <<recorder_alive, ssrc_map, whitelist, buffers, replies, tasks,
                   exit_code, join_at, buf_stamps, hist, accepted_at, dropped, last>>
    /\ UNCHANGED <<downmixVars, chunkVars, voiceVars, soundVars>>

\* list(), up to rx.await
ListCmd(guild) ==
    /\ Handles
    /\ IF guild = None
       THEN UNCHANGED <<queue, panic_log, tasks>>
       ELSE /\ Send(GetWhitelist(Stamp, Stamp), "List request failure")
            /\ tasks' = [tasks EXCEPT ![Stamp] =
                  [IdleTask EXCEPT !.kind = "list",
                                   !.pc = IF recorder_alive THEN "waiting" ELSE "panicked",
                                   !.guild = guild,
                                   !.seen_join = join_at,
                                   !.seen_leave = leave_at]]
    /\ UNCHANGED <<recorder_alive, ssrc_map, whitelist, buffers, replies,
                   exit_code, join_at, leave_at, buf_stamps, hist, accepted_at, dropped, last>>
    /\ UNCHANGED <<downmixVars, chunkVars, voiceVars, soundVars>>

\* ListMentions that mentions the whole whitelist
ListMentionsWhole(set, guild) == set

\* rx.await.intersection(guild members)
ListMentions(set, guild) == set \cap GuildMembers(guild)

\* list(), from rx.await on
ListRecv(t) ==
    /\ exit_code = "running"
    /\ tasks[t].kind = "list" /\ tasks[t].pc = "waiting"
    /\ replies[t].state # "empty"
    /\ IF replies[t].state = "sent"
       THEN /\ tasks' = [tasks EXCEPT ![t].pc = "done",
                  ![t].out = [NoOutput EXCEPT
                      !.mentions = ListMentions(replies[t].set, tasks[t].guild),
                      !.text = IF ListMentions(replies[t].set, tasks[t].guild) = {}
                               THEN "*Nobody.*" ELSE "mentions"]]
            /\ panic_log' = panic_log
       ELSE /\ tasks' = [tasks EXCEPT ![t].pc = "panicked"]
            /\ panic_log' = panic_log \cup {"List fetching failure"}
    /\ UNCHANGED <<queue, recorder_alive, ssrc_map, whitelist, buffers, replies,
                   exit_code, n_events, join_at, leave_at, buf_stamps, hist,
                   accepted_at, dropped, last>>
    /\ UNCHANGED <<downmixVars, chunkVars, voiceVars, soundVars>>

\* download(), up to rx.await; option is the resolved "user" option
DownloadCmd(option) ==
    /\ Handles
    /\ IF option = None
       THEN UNCHANGED <<queue, panic_log, tasks>>
       ELSE /\ Send(GetData(option, Stamp, Stamp), "Download request failure")
            /\ tasks' = [tasks EXCEPT ![Stamp] =
                  [IdleTask EXCEPT !.kind = "download",
                                   !.pc = IF recorder_alive THEN "waiting" ELSE "panicked",
                                   !.user = option,
                                   !.seen_join = join_at,
                                   !.seen_leave = leave_at]]
    /\ UNCHANGED <<recorder_alive, ssrc_map, whitelist, buffers, replies,
                   exit_code, join_at, leave_at, buf_stamps, hist, accepted_at, dropped, last>>
    /\ UNCHANGED <<downmixVars, chunkVars, voiceVars, soundVars>>

\* DataFromDeque that takes the front sample only
DataFromDequeFirst(deque) == SubSeq(deque, 1, Min(1, Len(deque)))

\* data.map(Vec::from): the deque's contents, front to back
DataFromDeque(deque) == deque

\* download(), from rx.await on
DownloadRecv(t) ==
    /\ exit_code = "running"
    /\ tasks[t].kind = "download" /\ tasks[t].pc = "waiting"
    /\ replies[t].state # "empty"
    /\ IF replies[t].state = "sent"
       THEN /\ tasks' = [tasks EXCEPT ![t].pc = "done",
                  ![t].out =
                     IF replies[t].some
                     THEN [NoOutput EXCEPT
                             !.data = DataFromDeque(replies[t].data),
                             !.files = Attachments(tasks[t].user,
                                                   DataFromDeque(replies[t].data))]
                     ELSE [NoOutput EXCEPT !.text = "No voice data found"]]
            /\ panic_log' = panic_log
       ELSE /\ tasks' = [tasks EXCEPT ![t].pc = "panicked"]
            /\ panic_log' = panic_log \cup {"Voice data fetching error"}
    /\ UNCHANGED <<queue, recorder_alive, ssrc_map, whitelist, buffers, replies,
                   exit_code, n_events, join_at, leave_at, buf_stamps, hist,
                   accepted_at, dropped, last>>
    /\ UNCHANGED <<downmixVars, chunkVars, voiceVars, soundVars>>

\* main(): client.start() returns its error, main returns ExitCode::FAILURE
ClientStops ==
    /\ exit_code = "running"
    /\ exit_code' = "FAILURE"
    /\ UNCHANGED <<queue, recorder_alive, ssrc_map, whitelist, buffers, replies,
                   tasks, panic_log, n_events, join_at, leave_at, buf_stamps, hist,
                   accepted_at, dropped, last>>
    /\ UNCHANGED <<downmixVars, chunkVars, voiceVars, soundVars>>

-----------------------------------------------------------------------------
(* The Soundboard: soundboard.rs, modelled from spec.md 3 and 4.3 *)

\* the k-th sound id the Soundboard generates: ids grow with time, and
\* these differ in their leading digit only
SoundIdAt(k) == 5 + 32 * (k - 1)
SoundIdSet == {SoundIdAt(k) : k \in 1..MaxSounds}

\* an attachment: the bytes behind its url, and what validating and
\* downloading it ends in ("" when it is a WAV of the required format)
Attachment(bytes, error) == [bytes |-> bytes, error |-> error]
GoodWav == Attachment(Package(<<7, -3>>), "")
OtherWav == Attachment(Package(<<9>>), "")
NotWav == Attachment(<<1, 2, 3>>, "NotWav")

\* index?: Option<usize>
SomeIndex(n) == [some |-> TRUE, n |-> n]
NoIndex == [some |-> FALSE, n |-> 0]

\* a Sound record; since is the id of the sound that opened its group and
\* stands for the position of the group among the groups of the guild
Sound(id, guild, name, emoji, color, group, index, since) ==
    [id |-> id, guild |-> guild, name |-> name, emoji |-> emoji,
     color |-> color, group |-> group, index |-> index, since |-> since]

\* the groups of the sounds of one guild, in first-insertion order
GroupsInOrder(ss) ==
    LET gs == {ss[i].group : i \in DOMAIN ss}
        since(g) == ss[CHOOSE i \in DOMAIN ss : ss[i].group = g].since
    IN  [k \in 1..Cardinality(gs) |->
            CHOOSE g \in gs : Cardinality({h \in gs : since(h) < since(g)}) = k - 1]

\* a sequence of sounds by ascending index (equal indices in insertion order)
SortByIndex(ss) ==
    LET before(j, i) == \/ ss[j].index < ss[i].index
                        \/ ss[j].index = ss[i].index /\ j < i
    IN  [k \in 1..Len(ss) |->
            ss[CHOOSE i \in DOMAIN ss :
                  Cardinality({j \in DOMAIN ss : before(j, i)}) = k - 1]]

\* list(guild): the guild's groups, each with its sounds by ascending index
SbList(cat, guild) ==
    LET ss == SelectSeq(cat, LAMBDA x : x.guild = guild)
        gs == GroupsInOrder(ss)
    IN  [k \in DOMAIN gs |->
            [group |-> gs[k],
             sounds |-> SortByIndex(SelectSeq(ss, LAMBDA x : x.group = gs[k]))]]

\* the indices taken in a group of a guild
GroupIndices(cat, guild, group) ==
    {cat[i].index : i \in {j \in DOMAIN cat :
                             cat[j].guild = guild /\ cat[j].group = group}}

\* the slot of a new sound: the requested one, or the one after the last
PlaceIndex(cat, guild, group, index) ==
    LET taken == GroupIndices(cat, guild, group) IN
    IF index.some THEN index.n
    ELSE IF taken = {} THEN 0
    ELSE (CHOOSE m \in taken : \A n \in taken : n <= m) + 1

\* ShiftFrom that moves nothing
ShiftNothing(cat, guild, group, n) == cat

\* the entries of the group at or after slot n move up by one
ShiftFrom(cat, guild, group, n) ==
    [i \in DOMAIN cat |->
        IF cat[i].guild = guild /\ cat[i].group = group /\ cat[i].index >= n
        THEN [cat[i] EXCEPT !.index = @ + 1]
        ELSE cat[i]]

\* (guild, name) is taken
DuplicateOf(cat, guild, name) ==
    \E i \in DOMAIN cat : cat[i].guild = guild /\ cat[i].name = name

\* add() fails with: a validation error, DuplicateName, DownloadFailed, in
\* the order spec.md 4.3 lists the steps; "" when it succeeds
AddError(cat, att, guild, name) ==
    IF att.error \in {"NotWav", "WrongFormat", "TooLong"} THEN att.error
    ELSE IF DuplicateOf(cat, guild, name) THEN "DuplicateName"
    ELSE att.error

\* the catalog after a successful add of the sound with the new id
AddRecord(cat, id, guild, name, emoji, color, group, index) ==
    LET slot == PlaceIndex(cat, guild, group, index)
        base == IF slot \in GroupIndices(cat, guild, group)
                THEN ShiftFrom(cat, guild, group, slot)
                ELSE cat
        members == {i \in DOMAIN cat : cat[i].guild = guild /\ cat[i].group = group}
        since == IF members = {} THEN id ELSE cat[CHOOSE i \in members : TRUE].since
    IN  Append(base, Sound(id, guild, name, emoji, color, group, slot, since))

\* delete() fails with NotFound when no record matches (guild, name)
DeleteError(cat, guild, name) ==
    IF DuplicateOf(cat, guild, name) THEN "" ELSE "NotFound"

\* the catalog without the record of (guild, name)
DeleteRecord(cat, guild, name) ==
    SelectSeq(cat, LAMBDA x : ~(x.guild = guild /\ x.name = name))

\* the ids of the records of (guild, name)
IdsOf(cat, guild, name) ==
    {cat[i].id : i \in {j \in DOMAIN cat :
                          cat[j].guild = guild /\ cat[j].name = name}}

\* no file at sounds_dir_path/{id}
NoBlob == <<>>

\* no cache entry
NoEntry == [present |-> FALSE, bytes |-> <<>>, last |-> 0]

\* get_wav(id): the cached bytes on a hit, the file on a miss, or None
\* (here the empty byte string) when there is neither
GetWavBytes(c, b, id) ==
    IF id \notin DOMAIN c THEN NoBlob
    ELSE IF c[id].present THEN c[id].bytes
    ELSE b[id]

\* GetWavCache that leaves the last access of a hit as it was
GetWavCacheNoRefresh(c, b, id, t) ==
    IF id \notin DOMAIN c THEN c
    ELSE IF c[id].present THEN c
    ELSE IF b[id] # NoBlob
         THEN [c EXCEPT ![id] = [present |-> TRUE, bytes |-> b[id], last |-> t]]
    ELSE c

\* the cache after get_wav(id) at time t: a hit refreshes the last access,
\* a miss that finds the file inserts it
GetWavCache(c, b, id, t) ==
    IF id \notin DOMAIN c THEN c
    ELSE IF c[id].present THEN [c EXCEPT ![id].last = t]
    ELSE IF b[id] # NoBlob
         THEN [c EXCEPT ![id] = [present |-> TRUE, bytes |-> b[id], last |-> t]]
    ELSE c

\* the cache loop: entries whose age since the last access is at least
\* sound_cache_duration are evicted
Evict(c, t) ==
    [id \in DOMAIN c |->
        IF c[id].present /\ t - c[id].last >= SoundCacheDuration
        THEN NoEntry ELSE c[id]]

\* the outcome of parsing a custom_id as a sound id
ParsedId(id) == [ok |-> TRUE, id |-> id]
InvalidId == [ok |-> FALSE, id |-> 0]

\* what a sound handler did: its reply text, the messages with components
\* it sent, whether it deferred, the id it asked get_wav for and the bytes
\* it got, whether it called play_source and with which samples, the panic
\* it ended in
NoSoundOut ==
    [handler |-> "", guild |-> None, name |-> None, custom_id |-> <<>>,
     reply |-> "", messages |-> <<>>, deferred |-> FALSE, asked |-> InvalidId,
     wav |-> NoBlob, submitted |-> FALSE, played |-> <<>>, panic |-> ""]

-----------------------------------------------------------------------------
(* Initial values of the variables a specification does not use *)

RecorderIdle ==
    /\ queue = <<>>
    /\ recorder_alive = TRUE
    /\ ssrc_map = [s \in Ssrcs |-> None]
    /\ whitelist = {}
    /\ buffers = [u \in Users |-> NoBuffer]
    /\ replies = [t \in EventIds |-> EmptyReply]
    /\ tasks = [t \in EventIds |-> IdleTask]
    /\ panic_log = {}
    /\ exit_code = "running"
    /\ n_events = 0
    /\ join_at = [u \in Users |-> 0]
    /\ leave_at = [u \in Users |-> 0]
    /\ buf_stamps = [u \in Users |-> <<>>]
    /\ hist = [u \in Users |-> <<>>]
    /\ accepted_at = [u \in Users |-> 0]
    /\ dropped = {}
    /\ last = NoLast

\* an operation's result before and after it ran
Pending == [done |-> FALSE, out |-> <<>>]
Done(out) == [done |-> TRUE, out |-> out]

DownmixIdle == packet_audio = <<>> /\ mono = Pending
ChunkIdle == snapshot = <<>> /\ files = Pending
\* the voice channels of the guilds: two voice channels and a stage channel
\* in g1, one voice channel in g2
Channels == {"c1", "c2", "st", "c3"}
ChannelGuild(c) == IF c = "c3" THEN "g2" ELSE "g1"
ChannelKind(c) == IF c = "st" THEN "Stage" ELSE "Voice"
ChannelsOf(g) == {c \in Channels : ChannelGuild(c) = g}

\* the members of the guilds, the bot among them
VoiceMembers(g) == IF g = "g1" THEN {Bot, "u1", "u2"} ELSE {Bot, "u1"}

NoHandled == [g |-> None, old |-> None, new |-> None, left |-> FALSE]

\* a Call without global event handlers
NoEvents == [speaking |-> 0, packet |-> 0]

VoiceIdle ==
    /\ voice_states = [g \in Guilds |-> [m \in VoiceMembers(g) |-> None]]
    /\ registered = [g \in Guilds |-> NoEvents]
    /\ conn = [g \in Guilds |-> None]
    /\ calls = {}
    /\ pending = {}
    /\ handled = NoHandled
    /\ voice_out = ""

SoundIdle ==
    /\ catalog = <<>>
    /\ blobs = [id \in SoundIdSet |-> NoBlob]
    /\ cache = [id \in SoundIdSet |-> NoEntry]
    /\ now = 0
    /\ next_id = 0
    /\ accessed_at = [id \in SoundIdSet |-> -1]
    /\ sound_out = NoSoundOut

-----------------------------------------------------------------------------
(* Spec: the adapter feeding the Recorder *)

\* Recorder::new loads the whitelist file; nothing else survives a restart
Init ==
    /\ queue = <<>>
    /\ recorder_alive = TRUE
    /\ ssrc_map = [s \in Ssrcs |-> None]
    /\ whitelist \in SUBSET Users
    /\ buffers = [u \in Users |-> NoBuffer]
    /\ replies = [t \in EventIds |-> EmptyReply]
    /\ tasks = [t \in EventIds |-> IdleTask]
    /\ panic_log = {}
    /\ exit_code = "running"
    /\ n_events = 0
    /\ join_at = [u \in Users |-> 0]
    /\ leave_at = [u \in Users |-> 0]
    /\ buf_stamps = [u \in Users |-> <<>>]
    /\ hist = [u \in Users |-> <<>>]
    /\ accepted_at = [u \in Users |-> 0]
    /\ dropped = {}
    /\ last = NoLast
    /\ DownmixIdle /\ ChunkIdle /\ VoiceIdle /\ SoundIdle

Next ==
    \/ \E u \in Users \cup {None}, s \in Ssrcs : SpeakingStateUpdate(u, s)
    \/ \E s \in Ssrcs, a \in AudioOptions : VoicePacket(s, a)
    \/ \E u \in Users : Join(u)
    \/ \E u \in Users : Leave(u)
    \/ \E g \in {"g1", None} : ListCmd(g)
    \/ \E t \in EventIds : ListRecv(t)
    \/ \E o \in Users \cup {None} : DownloadCmd(o)
    \/ \E t \in EventIds : DownloadRecv(t)
    \/ RecorderStep
    \/ \E x \in SUBSET Users : RecorderTick(x)

Spec == Init /\ [][Next]_vars

-----------------------------------------------------------------------------
(* SpecFailure: the same handlers, for one user and one ssrc, with the     *)
(* recorder task ending and the client stopping                            *)

NextFailure ==
    \/ \E u \in {"u1", None} : SpeakingStateUpdate(u, 1)
    \/ \E a \in AudioOptions : VoicePacket(1, a)
    \/ Join("u1")
    \/ Leave("u1")
    \/ \E g \in {"g1", None} : ListCmd(g)
    \/ \E t \in EventIds : ListRecv(t)
    \/ \E o \in {"u1", None} : DownloadCmd(o)
    \/ \E t \in EventIds : DownloadRecv(t)
    \/ RecorderStep
    \/ RecorderDies
    \/ ClientStops

SpecFailure == Init /\ [][NextFailure]_vars

-----------------------------------------------------------------------------
(* SpecDownmix: act() applied to one voice packet *)

\* 16-bit samples at and around the ends of the range
EdgeSamples == {I16Min, I16Min + 1, -1, 0, 1, I16Max}

SeqsUpTo(S, n) == UNION {[1..k -> S] : k \in 0..n}

InitDownmix ==
    /\ packet_audio \in SeqsUpTo(EdgeSamples, MaxPacketLen)
    /\ mono = Pending
    /\ RecorderIdle /\ ChunkIdle /\ VoiceIdle /\ SoundIdle

ActVoicePacket ==
    /\ ~mono.done
    /\ mono' = Done(Downmix(packet_audio))
    /\ UNCHANGED <<packet_audio, recorderVars, chunkVars, voiceVars, soundVars>>

NextDownmix == ActVoicePacket

SpecDownmix == InitDownmix /\ [][NextDownmix]_vars

-----------------------------------------------------------------------------
(* SpecChunk: download() applied to one snapshot *)

ChunkSamples == {-2, 0, 255, I16Max}

InitChunk ==
    /\ snapshot \in SeqsUpTo(ChunkSamples, MaxSnapshot)
    /\ files = Pending
    /\ RecorderIdle /\ DownmixIdle /\ VoiceIdle /\ SoundIdle

DownloadEmit ==
    /\ ~files.done
    /\ files' = Done(Attachments("u1", snapshot))
    /\ UNCHANGED <<snapshot, recorderVars, downmixVars, voiceVars, soundVars>>

NextChunk == DownloadEmit

SpecChunk == InitChunk /\ [][NextChunk]_vars

-----------------------------------------------------------------------------
(* SpecVoice: listen, voice-state updates and auto-leave *)

\* a dispatched voice_state_update(old, new) of member m in guild g
Update(g, m, old, new) == [g |-> g, m |-> m, old |-> old, new |-> new]

\* channel.members(): the members whose cached voice state names the channel
MembersIn(vs, g, c) == {m \in VoiceMembers(g) : vs[g][m] = c}

\* disconnect_if_alone reaches manager.leave: a voice channel whose only
\* member is the bot
IsAlone(vs, g, c) ==
    /\ c # None
    /\ ChannelKind(c) = "Voice"
    /\ MembersIn(vs, g, c) = {Bot}

\* ChannelsToCheck without the old state's channel
ChannelsToCheckNewOnly(old, new) == <<new>>

\* voice_state_update: the old state's channel, then the new state's
ChannelsToCheck(old, new) == <<old, new>>

\* The gateway reports that member m of guild g is now in channel new (or in
\* none); the cache is updated and the handler dispatched.  old = new is an
\* update that leaves the channel as it is (mute, deafen).
VoiceEvent(g, m, new) ==
    /\ Cardinality(pending) < MaxPending
    /\ voice_states[g][m] # None \/ new # None
    /\ voice_states' = [voice_states EXCEPT ![g][m] = new]
    /\ pending' = pending \cup {Update(g, m, voice_states[g][m], new)}
    /\ handled' = NoHandled
    /\ voice_out' = ""
    /\ UNCHANGED <<conn, calls, registered>>
    /\ UNCHANGED <<recorderVars, downmixVars, chunkVars, soundVars>>

\* The gateway reports the bot's own voice state after a join or a leave
\* that songbird requested.
BotVoiceEvent(g) ==
    /\ Cardinality(pending) < MaxPending
    /\ voice_states[g][Bot] # conn[g]
    /\ voice_states' = [voice_states EXCEPT ![g][Bot] = conn[g]]
    /\ pending' = pending \cup {Update(g, Bot, voice_states[g][Bot], conn[g])}
    /\ handled' = NoHandled
    /\ voice_out' = ""
    /\ UNCHANGED <<conn, calls, registered>>
    /\ UNCHANGED <<recorderVars, downmixVars, chunkVars, soundVars>>

\* voice_state_update: disconnect_if_alone(old channel), then (new channel).
\* manager.leave fails when the guild has no Call, and expect() panics.
HandleVoiceStateUpdate(h) ==
    /\ h \in pending
    /\ LET cs == ChannelsToCheck(h.old, h.new)
           alone == \E i \in DOMAIN cs : IsAlone(voice_states, h.g, cs[i])
       IN  /\ conn' = IF alone /\ h.g \in calls THEN [conn EXCEPT ![h.g] = None]
                      ELSE conn
           /\ voice_out' = IF alone /\ h.g \notin calls
                           THEN "Voice disconnection failure"
                           ELSE ""
           /\ handled' = [g |-> h.g, old |-> h.old, new |-> h.new,
                          left |-> alone /\ h.g \in calls]
    /\ pending' = pending \ {h}
    /\ UNCHANGED <<voice_states, calls, registered>>
    /\ UNCHANGED <<recorderVars, downmixVars, chunkVars, soundVars>>

\* find_voice_channel: the voice channel of the guild the user is in
FindVoiceChannel(vs, g, user) ==
    IF \E c \in ChannelsOf(g) : ChannelKind(c) = "Voice" /\ vs[g][user] = c
    THEN vs[g][user] ELSE None

\* RegisterEvents that keeps the handlers the Call already has
RegisterEventsKeepOld(h) == [speaking |-> h.speaking + 1, packet |-> h.packet + 1]

\* listen(): remove_all_global_events(), then add_global_event for
\* SpeakingStateUpdate and for VoicePacket, under the Call's lock
RegisterEvents(h) == [speaking |-> NoEvents.speaking + 1, packet |-> NoEvents.packet + 1]

\* listen(): join the caller's voice channel
Listen(g, user) ==
    /\ Cardinality(pending) < MaxPending
    /\ IF g = None
       THEN voice_out' = "" /\ UNCHANGED <<voice_states, conn, calls, pending, registered>>
       ELSE LET channel == FindVoiceChannel(voice_states, g, user) IN
            IF channel = None
            THEN /\ voice_out' = "You aren't in a voice channel. Dahhh..."
                 /\ UNCHANGED <<voice_states, conn, calls, pending, registered>>
            ELSE /\ calls' = calls \cup {g}
                 /\ registered' = [registered EXCEPT ![g] = RegisterEvents(@)]
                 /\ conn' = [conn EXCEPT ![g] = channel]
                 /\ voice_states' = [voice_states EXCEPT ![g][Bot] = channel]
                 /\ pending' = IF voice_states[g][Bot] = channel THEN pending
                               ELSE pending \cup {Update(g, Bot, voice_states[g][Bot], channel)}
                 /\ voice_out' = "Listening..."
    /\ handled' = NoHandled
    /\ UNCHANGED <<recorderVars, downmixVars, chunkVars, soundVars>>

InitVoice == VoiceIdle /\ RecorderIdle /\ DownmixIdle /\ ChunkIdle /\ SoundIdle

NextVoice ==
    \/ \E g \in Guilds : \E m \in VoiceMembers(g) \ {Bot} :
          \E c \in ChannelsOf(g) \cup {None} : VoiceEvent(g, m, c)
    \/ \E g \in Guilds : BotVoiceEvent(g)
    \/ \E h \in pending : HandleVoiceStateUpdate(h)
    \/ \E g \in Guilds : \E u \in VoiceMembers(g) \ {Bot} : Listen(g, u)
    \/ \E u \in Users : Listen(None, u)

SpecVoice == InitVoice /\ [][NextVoice]_vars

-----------------------------------------------------------------------------
(* The soundboard handlers of the adapter *)

ROWS_PER_MESSAGE == 5
SOUNDS_PER_ROW == 5

\* Crockford base32, the alphabet of a Ulid's text
CROCKFORD == <<"0", "1", "2", "3", "4", "5", "6", "7", "8", "9", "A", "B",
               "C", "D", "E", "F", "G", "H", "J", "K", "M", "N", "P", "Q",
               "R", "S", "T", "V", "W", "X", "Y", "Z">>
CROCKFORD_LOWER == <<"0", "1", "2", "3", "4", "5", "6", "7", "8", "9", "a", "b",
                     "c", "d", "e", "f", "g", "h", "j", "k", "m", "n", "p", "q",
                     "r", "s", "t", "v", "w", "x", "y", "z">>

RECURSIVE Pow32(_)
Pow32(k) == IF k = 0 THEN 1 ELSE 32 * Pow32(k - 1)

\* UlidToString that writes the last digit only
UlidToStringLastDigit(id) ==
    [j \in 1..ScaledUlidLen |->
        IF j < ScaledUlidLen THEN "0" ELSE CROCKFORD[(id % 32) + 1]]

\* sound.id.to_string(): the digits of the id in base 32, the leading first
UlidToString(id) ==
    [j \in 1..ScaledUlidLen |->
        CROCKFORD[((id \div Pow32(ScaledUlidLen - j)) % 32) + 1]]

\* the value of a character of a Ulid's text, -1 for any other character
CharValue(c) ==
    IF \E v \in 1..32 : CROCKFORD[v] = c
    THEN (CHOOSE v \in 1..32 : CROCKFORD[v] = c) - 1
    ELSE IF \E v \in 1..32 : CROCKFORD_LOWER[v] = c
    THEN (CHOOSE v \in 1..32 : CROCKFORD_LOWER[v] = c) - 1
    ELSE -1

RECURSIVE DigitsValue(_)
DigitsValue(cs) ==
    IF cs = <<>> THEN 0
    ELSE 32 * DigitsValue(SubSeq(cs, 1, Len(cs) - 1)) + CharValue(cs[Len(cs)])

\* Ulid::from_string: the text must have the length of a Ulid and hold
\* base-32 digits only
UlidFromString(cs) ==
    IF Len(cs) # ScaledUlidLen THEN InvalidId
    ELSE IF \E j \in DOMAIN cs : CharValue(cs[j]) < 0 THEN InvalidId
    ELSE ParsedId(DigitsValue(cs))

\* the custom_id of the select menu that heads a group
GroupMenuId == <<"g", "r", "o", "u", "p">>

\* upload(): the "color" option as a button style
ButtonStyle(color) ==
    CASE color = "blue" -> "Primary"
      [] color = "green" -> "Success"
      [] color = "red" -> "Danger"
      [] color = "grey" -> "Secondary"
      [] OTHER -> "Primary"

\* the "index" option: Option<i64>
SomeInteger(n) == [some |-> TRUE, n |-> n]
NoInteger == [some |-> FALSE, n |-> 0]

UsizeModulus == 2 ^ ScaledUsizeBits

\* upload(): Some((*n - 1) as usize)
IndexArg(opt) ==
    IF opt.some THEN SomeIndex((opt.n - 1) % UsizeModulus) ELSE NoIndex

\* a sound button and the select menu of a group
Button(id, name, style, emoji) ==
    [kind |-> "button", custom_id |-> UlidToString(id), label |-> name,
     style |-> style, emoji |-> emoji]
SelectMenu(group) ==
    [kind |-> "select", custom_id |-> GroupMenuId, label |-> group,
     style |-> None, emoji |-> None]

\* GroupMessages that fills all ROWS_PER_MESSAGE rows with sounds
GroupMessagesFullRows(g) ==
    LET perMessage == Chunks(g.sounds, ROWS_PER_MESSAGE * SOUNDS_PER_ROW)
        buttons(ss) == [i \in DOMAIN ss |->
                           Button(ss[i].id, ss[i].name, ss[i].color, ss[i].emoji)]
        rows(ss) == LET rs == Chunks(ss, SOUNDS_PER_ROW)
                    IN  [r \in DOMAIN rs |-> buttons(rs[r])]
    IN  [m \in DOMAIN perMessage |->
            (IF m = 1 THEN <<(<<SelectMenu(g.group)>>)>> ELSE <<>>)
               \o rows(perMessage[m])]

\* list_sounds(): the messages of one group; the first carries the select
\* menu, each carries at most (ROWS_PER_MESSAGE - 1) rows of SOUNDS_PER_ROW
GroupMessages(g) ==
    LET perMessage == Chunks(g.sounds, (ROWS_PER_MESSAGE - 1) * SOUNDS_PER_ROW)
        buttons(ss) == [i \in DOMAIN ss |->
                           Button(ss[i].id, ss[i].name, ss[i].color, ss[i].emoji)]
        rows(ss) == LET rs == Chunks(ss, SOUNDS_PER_ROW)
                    IN  [r \in DOMAIN rs |-> buttons(rs[r])]
    IN  [m \in DOMAIN perMessage |->
            (IF m = 1 THEN <<(<<SelectMenu(g.group)>>)>> ELSE <<>>)
               \o rows(perMessage[m])]

RECURSIVE ListMessages(_)
\* list_sounds(): the messages of all groups, in the order sent
ListMessages(groups) ==
    IF groups = <<>> THEN <<>>
    ELSE GroupMessages(Head(groups)) \o ListMessages(Tail(groups))

\* UploadErrorReply that says nothing
UploadErrorReplyEmpty(err) == ""

\* upload(), the Err arm: err.to_string()
UploadErrorReply(err) == err

\* DeleteReply that always reports success
DeleteReplyAlwaysDeleted(err) == "Deleted. *(for ever)*"

\* delete(): the reply of either arm
DeleteReply(err) == IF err = "" THEN "Deleted. *(for ever)*" ELSE err

\* MissingGuild that lets every interaction through
MissingGuildNever(guild) == FALSE

\* `let Some(guild) = ..guild_id else { return }`: no guild context
MissingGuild(guild) == guild = None

\* list_sounds()
SoundsCmd(guild) ==
    /\ IF MissingGuild(guild)
       THEN sound_out' = [NoSoundOut EXCEPT !.handler = "sounds"]
       ELSE LET sounds == SbList(catalog, guild) IN
            sound_out' =
               IF sounds = <<>>
               THEN [NoSoundOut EXCEPT
                       !.handler = "sounds", !.guild = guild,
                       !.reply = "There is no sounds uploaded to this server...yet."]
               ELSE [NoSoundOut EXCEPT
                       !.handler = "sounds", !.guild = guild, !.deferred = TRUE,
                       !.messages = ListMessages(sounds)]
    /\ UNCHANGED <<catalog, blobs, cache, now, next_id, accessed_at>>
    /\ UNCHANGED <<recorderVars, downmixVars, chunkVars, voiceVars>>

\* upload(); name = None stands for a required option that is missing
UploadCmd(guild, att, name, color, group, emoji, index) ==
    /\ IF MissingGuild(guild) \/ name = None
       THEN /\ sound_out' = [NoSoundOut EXCEPT !.handler = "upload"]
            /\ UNCHANGED <<catalog, blobs, next_id>>
       ELSE LET err == AddError(catalog, att, guild, name)
                id == SoundIdAt(next_id + 1)
            IN  IF err = ""
                THEN /\ next_id < MaxSounds
                     /\ catalog' = AddRecord(catalog, id, guild, name, emoji,
                                             ButtonStyle(color), group, IndexArg(index))
                     /\ blobs' = [blobs EXCEPT ![id] = att.bytes]
                     /\ next_id' = next_id + 1
                     /\ sound_out' = [NoSoundOut EXCEPT
                           !.handler = "upload", !.guild = guild, !.name = name,
                           !.messages = <<(<<(<<Button(id, name, ButtonStyle(color),
                                                      emoji)>>)>>)>>]
                ELSE /\ sound_out' = [NoSoundOut EXCEPT
                           !.handler = "upload", !.guild = guild, !.name = name,
                           !.reply = UploadErrorReply(err)]
                     /\ UNCHANGED <<catalog, blobs, next_id>>
    /\ UNCHANGED <<cache, now, accessed_at>>
    /\ UNCHANGED <<recorderVars, downmixVars, chunkVars, voiceVars>>

\* delete(); name = None stands for the missing "sound" option
DeleteCmd(guild, name) ==
    /\ IF MissingGuild(guild) \/ name = None
       THEN /\ sound_out' = [NoSoundOut EXCEPT !.handler = "delete"]
            /\ UNCHANGED <<catalog, blobs>>
       ELSE LET err == DeleteError(catalog, guild, name) IN
            /\ catalog' = IF err = "" THEN DeleteRecord(catalog, guild, name)
                          ELSE catalog
            /\ blobs' = IF err = ""
                        THEN [id \in DOMAIN blobs |->
                                 IF id \in IdsOf(catalog, guild, name)
                                 THEN NoBlob ELSE blobs[id]]
                        ELSE blobs
            /\ sound_out' = [NoSoundOut EXCEPT
                  !.handler = "delete", !.guild = guild, !.name = name,
                  !.reply = DeleteReply(err)]
    /\ UNCHANGED <<cache, now, next_id, accessed_at>>
    /\ UNCHANGED <<recorderVars, downmixVars, chunkVars, voiceVars>>

\* manager.get(guild) is Some
CallOf(guild) == guild \in calls

\* dispatch_component(): defer joined with the play future
ButtonClick(guild, custom_id) ==
    /\ IF MissingGuild(guild)
       THEN /\ sound_out' = [NoSoundOut EXCEPT !.handler = "click"]
            /\ UNCHANGED <<cache, accessed_at>>
       ELSE LET parsed == UlidFromString(custom_id)
                wav == GetWavBytes(cache, blobs, parsed.id)
                base == [NoSoundOut EXCEPT !.handler = "click", !.guild = guild,
                                           !.custom_id = custom_id]
            IN  IF ~parsed.ok
                THEN /\ \E sent \in BOOLEAN :
                          sound_out' = [base EXCEPT !.panic = "Invalid sound id",
                                                    !.deferred = sent]
                     /\ UNCHANGED <<cache, accessed_at>>
                ELSE /\ cache' = GetWavCache(cache, blobs, parsed.id, now)
                     /\ accessed_at' = IF wav # NoBlob
                                       THEN [accessed_at EXCEPT ![parsed.id] = now]
                                       ELSE accessed_at
                     /\ sound_out' = [base EXCEPT
                           !.deferred = TRUE, !.asked = parsed, !.wav = wav,
                           !.submitted = (wav # NoBlob /\ CallOf(guild)),
                           !.played = IF wav # NoBlob /\ CallOf(guild)
                                      THEN SubSeq(wav, HEADER_SIZE + 1, Len(wav))
                                      ELSE <<>>]
    /\ UNCHANGED <<catalog, blobs, now, next_id>>
    /\ UNCHANGED <<recorderVars, downmixVars, chunkVars, voiceVars>>

-----------------------------------------------------------------------------
(* SpecSound: the soundboard commands and the sound buttons *)

\* u1 sits in the voice channel c1 of g1, the bot is connected nowhere
VoiceWithCaller ==
    /\ voice_states = [g \in Guilds |-> [m \in VoiceMembers(g) |->
                          IF g = "g1" /\ m = "u1" THEN "c1" ELSE None]]
    /\ registered = [g \in Guilds |-> NoEvents]
    /\ conn = [g \in Guilds |-> None]
    /\ calls = {}
    /\ pending = {}
    /\ handled = NoHandled
    /\ voice_out = ""

\* the custom_ids a click can carry: those of the buttons of the first two
\* sounds and that of the menu
ClickIds == {UlidToString(SoundIdAt(k)) : k \in 1..2} \cup {GroupMenuId}

InitSound == SoundIdle /\ VoiceWithCaller /\ RecorderIdle /\ DownmixIdle /\ ChunkIdle

\* the uploads and deletes of SpecSound: two names in g1, one of them in
\* g2 as well; None is a missing guild or a missing option
SoundTargets == {<<"g1", "ding">>, <<"g1", "dong">>, <<"g2", "ding">>,
                 <<None, "ding">>, <<"g1", None>>}

NextSound ==
    \/ \E g \in Guilds \cup {None} : SoundsCmd(g)
    \/ \E t \in SoundTargets : \E att \in {GoodWav, NotWav} :
          /\ next_id < MaxSounds - 1
          /\ UploadCmd(t[1], att, t[2], "red", "Bell", None, NoInteger)
    \/ \E t \in SoundTargets : DeleteCmd(t[1], t[2])
    \/ \E g \in {"g1", None} : \E c \in ClickIds : ButtonClick(g, c)
    \/ Listen("g1", "u1")

SpecSound == InitSound /\ [][NextSound]_vars

-----------------------------------------------------------------------------
(* SpecGuildless: each guild-only interaction, with and without a guild *)

\* the guild_id of an interaction: g1, or none (a direct message)
GuildContexts == {"g1", None}

InitGuildless == SoundIdle /\ VoiceWithCaller /\ RecorderIdle /\ DownmixIdle /\ ChunkIdle

NextGuildless ==
    \/ \E g \in GuildContexts : ListCmd(g)
    \/ \E t \in EventIds : ListRecv(t)
    \/ RecorderStep
    \/ \E g \in GuildContexts : Listen(g, "u1")
    \/ \E g \in GuildContexts : SoundsCmd(g)
    \/ \E g \in GuildContexts :
          UploadCmd(g, GoodWav, "ding", "red", "Bell", None, NoInteger)
    \/ \E g \in GuildContexts : DeleteCmd(g, "ding")
    \/ \E g \in GuildContexts : ButtonClick(g, UlidToString(SoundIdAt(1)))

SpecGuildless == InitGuildless /\ [][NextGuildless]_vars

-----------------------------------------------------------------------------
(* SpecOptIn: every command and event of the adapter, next to the recorder *)

InitOptIn == SoundIdle /\ VoiceWithCaller /\ RecorderIdle /\ DownmixIdle /\ ChunkIdle

NextOptIn ==
    \/ \E u \in Users : n_events < MaxOptInEvents /\ Join(u)
    \/ \E u \in Users : n_events < MaxOptInEvents /\ Leave(u)
    \/ n_events < MaxOptInEvents /\ ListCmd("g1")
    \/ \E t \in EventIds : ListRecv(t)
    \/ n_events < MaxOptInEvents /\ DownloadCmd("u1")
    \/ \E t \in EventIds : DownloadRecv(t)
    \/ n_events < MaxOptInEvents /\ SpeakingStateUpdate("u1", 1)
    \/ n_events < MaxOptInEvents /\ VoicePacket(1, SomeAudio(<<1, 1>>))
    \/ RecorderStep
    \/ Listen("g1", "u1")
    \/ \E h \in pending : HandleVoiceStateUpdate(h)
    \/ SoundsCmd("g1")
    \/ next_id < 1 /\ UploadCmd("g1", GoodWav, "ding", "red", "Bell", None, NoInteger)
    \/ DeleteCmd("g1", "ding")
    \/ ButtonClick("g1", UlidToString(SoundIdAt(1)))

SpecOptIn == InitOptIn /\ [][NextOptIn]_vars

-----------------------------------------------------------------------------
(* SpecRender: list_sounds() applied to listings of two groups *)

\* the group of the k-th sound added: groups a and b take turns until the
\* smaller one is complete
RenderGroup(k, na, nb) ==
    IF k <= 2 * Min(na, nb) THEN (IF k % 2 = 1 THEN "a" ELSE "b")
    ELSE IF na > nb THEN "a" ELSE "b"

\* a catalog of na sounds in group a, added at the end of the group, and nb
\* sounds in group b, each added at the front of the group
RenderCatalog(na, nb) ==
    [k \in 1..(na + nb) |->
        LET grp == RenderGroup(k, na, nb)
            same == {j \in 1..(na + nb) : RenderGroup(j, na, nb) = grp}
            rank == Cardinality({j \in same : j <= k})
            first == CHOOSE j \in same : \A i \in same : j <= i
        IN  Sound(k, "g1", ToString(k), None, "Primary", grp,
                  IF grp = "a" THEN rank - 1 ELSE nb - rank, first)]

InitRender ==
    /\ \E na \in 0..MaxGroupSize : \E nb \in 0..MaxGroupSize :
          /\ catalog = RenderCatalog(na, nb)
          /\ blobs = [id \in 1..(na + nb) |-> GoodWav.bytes]
          /\ cache = [id \in 1..(na + nb) |-> NoEntry]
          /\ accessed_at = [id \in 1..(na + nb) |-> -1]
          /\ next_id = na + nb
    /\ now = 0
    /\ sound_out = NoSoundOut
    /\ RecorderIdle /\ DownmixIdle /\ ChunkIdle /\ VoiceIdle

NextRender == \E g \in Guilds : SoundsCmd(g)

SpecRender == InitRender /\ [][NextRender]_vars

-----------------------------------------------------------------------------
(* SpecLive: requests and their replies while the recorder keeps running *)

\* the future of a handler suspended at rx.await is dropped, and its reply
\* receiver with it
ReceiverDropped(t) ==
    /\ exit_code = "running"
    /\ tasks[t].pc = "waiting"
    /\ tasks' = [tasks EXCEPT ![t].pc = "dropped"]
    /\ UNCHANGED <<queue, recorder_alive, ssrc_map, whitelist, buffers, replies,
                   panic_log, exit_code, n_events, join_at, leave_at, buf_stamps,
                   hist, accepted_at, dropped, last>>
    /\ UNCHANGED <<downmixVars, chunkVars, voiceVars, soundVars>>

\* record_whitelist_path holds u1 at start
InitLive == Init /\ whitelist = {"u1"}

NextLive ==
    \/ SpeakingStateUpdate("u1", 1)
    \/ VoicePacket(1, SomeAudio(<<1, 1>>))
    \/ ListCmd("g1")
    \/ \E t \in EventIds : ListRecv(t)
    \/ DownloadCmd("u1")
    \/ \E t \in EventIds : DownloadRecv(t)
    \/ \E t \in EventIds : ReceiverDropped(t)
    \/ RecorderStep

\* LiveFairness without the recorder: only the handlers are scheduled
LiveFairnessHandlersOnly ==
    \A t \in EventIds : WF_vars(ListRecv(t)) /\ WF_vars(DownloadRecv(t))

\* the recorder's loop and the handlers' tasks are tokio tasks: one that can
\* take a step is eventually polled
LiveFairness ==
    /\ WF_vars(RecorderStep)
    /\ \A t \in EventIds : WF_vars(ListRecv(t)) /\ WF_vars(DownloadRecv(t))

SpecLive == InitLive /\ [][NextLive]_vars /\ LiveFairness

-----------------------------------------------------------------------------
(* SpecListen: repeated listen commands and the voice events of the Call *)

\* the messages k calls of act() send for one voice packet
PacketSends(k, ssrc, audio, at) ==
    IF audio.some
    THEN [i \in 1..k |-> RegisterVoiceData(ssrc, Downmix(audio.samples), at)]
    ELSE <<>>

\* the messages k calls of act() send for one speaking-state update
SpeakingSends(k, user, ssrc, at) ==
    IF user # None THEN [i \in 1..k |-> MapUser(user, ssrc, at)] ELSE <<>>

\* the Call of guild g fires an event: act() runs once for every global
\* handler registered for it, each run sending what this event makes it send
DriverFires(g, sends) ==
    /\ Handles
    /\ conn[g] # None
    /\ IF recorder_alive \/ sends = <<>>
       THEN queue' = queue \o sends /\ panic_log' = panic_log
       ELSE queue' = queue /\ panic_log' = panic_log \cup {"Event dispatch error"}
    /\ UNCHANGED <<recorder_alive, ssrc_map, whitelist, buffers, replies, tasks,
                   exit_code, join_at, leave_at, buf_stamps, hist, accepted_at, dropped, last>>
    /\ UNCHANGED <<downmixVars, chunkVars, voiceVars, soundVars>>

\* CoreEvent::VoicePacket on the Call of guild g
DriverVoicePacket(g, ssrc, audio) ==
    DriverFires(g, PacketSends(registered[g].packet, ssrc, audio, Stamp))

\* CoreEvent::SpeakingStateUpdate on the Call of guild g
DriverSpeakingStateUpdate(g, user, ssrc) ==
    DriverFires(g, SpeakingSends(registered[g].speaking, user, ssrc, Stamp))

InitListen == VoiceWithCaller /\ SoundIdle /\ RecorderIdle /\ DownmixIdle /\ ChunkIdle

NextListen ==
    \/ Listen("g1", "u1")
    \/ \E c \in {"c1", "c2", None} : VoiceEvent("g1", "u1", c)
    \/ BotVoiceEvent("g1")
    \/ \E h \in pending : HandleVoiceStateUpdate(h)
    \/ \E a \in AudioOptions : DriverVoicePacket("g1", 1, a)
    \/ \E u \in {"u1", None} : DriverSpeakingStateUpdate("g1", u, 1)
    \/ RecorderStep

SpecListen == InitListen /\ [][NextListen]_vars

-----------------------------------------------------------------------------
(* SpecIndex: the order of the sounds of a group under add *)

\* the name of the k-th upload: every upload has a name of its own
SoundNames == <<"n1", "n2", "n3", "n4", "n5", "n6">>

InitIndex == SoundIdle /\ VoiceIdle /\ RecorderIdle /\ DownmixIdle /\ ChunkIdle

\* the uploads of SpecIndex: group a of g1 with and without a position
\* (the option counts from 1), group b of g1 and group a of g2 without
IndexUploads ==
    {<<"g1", "a", index>> : index \in {NoInteger, SomeInteger(1), SomeInteger(2)}}
       \cup {<<"g1", "b", NoInteger>>, <<"g2", "a", NoInteger>>}

NextIndex ==
    \/ \E u \in IndexUploads :
          UploadCmd(u[1], GoodWav, SoundNames[next_id + 1], "blue", u[2], None, u[3])
    \/ \E name \in {"n1", "n2"} : DeleteCmd("g1", name)
    \/ \E g \in Guilds : SoundsCmd(g)

SpecIndex == InitIndex /\ [][NextIndex]_vars

-----------------------------------------------------------------------------
(* SpecIndexOption: uploads whose index option takes any integer *)

\* the values of the index option: absent, or an integer; the command is
\* registered without a min_value, so Discord accepts zero and negatives
IndexOptionValues ==
    {NoInteger} \cup {SomeInteger(n) : n \in (0 - MaxIndexOption)..MaxIndexOption}

InitIndexOption == SoundIdle /\ VoiceIdle /\ RecorderIdle /\ DownmixIdle /\ ChunkIdle

NextIndexOption ==
    \/ \E opt \in IndexOptionValues :
          UploadCmd("g1", GoodWav, SoundNames[next_id + 1], "blue", "a", None, opt)
    \/ SoundsCmd("g1")

SpecIndexOption == InitIndexOption /\ [][NextIndexOption]_vars

-----------------------------------------------------------------------------
(* SpecCache: the sound cache and its eviction loop *)

\* the clock stops here
MaxTime == 3 * SoundCacheDuration

\* the period of the cache loop; spec.md gives none, the loop is taken to
\* wake once per sound_cache_duration
CachePeriod == SoundCacheDuration

\* the files of the two sounds the catalog starts with
CacheBlobs ==
    [id \in SoundIdSet |->
        IF id = SoundIdAt(1) THEN GoodWav.bytes
        ELSE IF id = SoundIdAt(2) THEN OtherWav.bytes
        ELSE NoBlob]

\* the catalog loaded at startup: two sounds of g1
InitCache ==
    /\ catalog = <<Sound(SoundIdAt(1), "g1", "ding", None, "Primary", "Bell", 0, SoundIdAt(1)),
                   Sound(SoundIdAt(2), "g1", "dong", None, "Primary", "Bell", 1, SoundIdAt(1))>>
    /\ blobs = CacheBlobs
    /\ cache = [id \in SoundIdSet |-> NoEntry]
    /\ now = 0
    /\ next_id = 2
    /\ accessed_at = [id \in SoundIdSet |-> -1]
    /\ sound_out = NoSoundOut
    /\ VoiceIdle /\ RecorderIdle /\ DownmixIdle /\ ChunkIdle

\* time passes; the cache loop wakes when its period has elapsed
ClockTick ==
    /\ now < MaxTime
    /\ now' = now + 1
    /\ cache' = IF (now + 1) % CachePeriod = 0 THEN Evict(cache, now + 1) ELSE cache
    /\ sound_out' = NoSoundOut
    /\ UNCHANGED <<catalog, blobs, next_id, accessed_at>>
    /\ UNCHANGED <<recorderVars, downmixVars, chunkVars, voiceVars>>

NextCache ==
    \/ \E id \in {SoundIdAt(1), SoundIdAt(2)} : ButtonClick("g1", UlidToString(id))
    \/ ClockTick
    \/ DeleteCmd("g1", "ding")

SpecCache == InitCache /\ [][NextCache]_vars

-----------------------------------------------------------------------------
(* Claims *)

RECURSIVE ConcatBodies(_)
\* the sample bodies of a sequence of attachments, joined in the order sent
ConcatBodies(fs) ==
    IF fs = <<>> THEN <<>>
    ELSE BodySamples(Head(fs).data) \o ConcatBodies(Tail(fs))

\* the last n elements of a sequence
Suffix(xs, n) == SubSeq(xs, Len(xs) - n + 1, Len(xs))

\* the recorder dequeued an action in this step
Dequeues == queue # <<>> /\ recorder_alive' /\ queue' = Tail(queue)

\* C1: a snapshot of at least ChunkSize + 1 samples is sent as two or more
\* attachments, none larger than MAX_FILE_SIZE with its header, and their
\* bodies joined in the order sent are the snapshot.
C1_DownloadChunking ==
    (files.done /\ Len(snapshot) >= (MAX_FILE_SIZE - HEADER_SIZE) \div 2 + 1) =>
        /\ Len(files.out) >= 2
        /\ \A i \in DOMAIN files.out : Len(files.out[i].data) <= MAX_FILE_SIZE
        /\ ConcatBodies(files.out) = snapshot

C1_Witness ==
    /\ files.done
    /\ Len(snapshot) >= 2 * ((MAX_FILE_SIZE - HEADER_SIZE) \div 2) + 1
    /\ Len(files.out) >= 3
    /\ \E i \in DOMAIN snapshot : snapshot[i] < 0

\* C2: what a download receives is never longer than the capacity and is
\* exactly the most recent min(N, capacity) of the N samples retained for
\* the user, in arrival order.
C2_RingBufferBound ==
    \A t \in EventIds :
        (tasks[t].kind = "download" /\ tasks[t].pc = "done" /\ replies[t].some) =>
            /\ Len(tasks[t].out.data) <= Capacity
            /\ tasks[t].out.data =
                  Suffix(replies[t].hist, Min(Len(replies[t].hist), Capacity))

C2_Witness ==
    \E t \in EventIds :
        /\ tasks[t].kind = "download" /\ tasks[t].pc = "done"
        /\ Len(replies[t].hist) > Capacity
        /\ Len(tasks[t].out.data) = Capacity

\* C3: no ring buffer exists for a user outside the whitelist, and a
\* RegisterVoiceData whose ssrc is unmapped or maps to a user who is not
\* whitelisted when it is dequeued changes no GetData output.
C3_WhitelistGate ==
    /\ [](\A u \in Users : buffers[u].present => u \in whitelist)
    /\ [][(/\ Dequeues
           /\ Head(queue).kind = "RegisterVoiceData"
           /\ \/ ssrc_map[Head(queue).ssrc] = None
              \/ ssrc_map[Head(queue).ssrc] \notin whitelist)
          => \A u \in Users : /\ buffers'[u] = buffers[u]
                              /\ GetDataValue(buffers'[u]) = GetDataValue(buffers[u])]_vars

C3_Witness ==
    /\ last.kind = "RegisterVoiceData"
    /\ last.user # None
    /\ last.user \notin whitelist
    /\ ~last.accepted
    /\ ~buffers[last.user].present

\* C4: MapUser(u, s2) leaves s2 as the only ssrc of u; a RegisterVoiceData on
\* an ssrc that a remap took from its user changes no ring buffer, and one on
\* the ssrc of a whitelisted user goes to that user's buffer alone.
C4_SsrcRemap ==
    /\ [](\A s \in dropped : ssrc_map[s] = None)
    /\ [][(Dequeues /\ Head(queue).kind = "MapUser")
          => /\ ssrc_map'[Head(queue).ssrc] = Head(queue).user
             /\ \A s \in Ssrcs \ {Head(queue).ssrc} : ssrc_map'[s] # Head(queue).user]_vars
    /\ [][(Dequeues /\ Head(queue).kind = "RegisterVoiceData"
             /\ Head(queue).ssrc \in dropped)
          => buffers' = buffers]_vars
    /\ [][(Dequeues /\ Head(queue).kind = "RegisterVoiceData"
             /\ ssrc_map[Head(queue).ssrc] \in whitelist)
          => LET u == ssrc_map[Head(queue).ssrc] IN
             /\ buffers'[u].present
             /\ hist'[u] = hist[u] \o Head(queue).samples
             /\ \A v \in Users \ {u} : buffers'[v] = buffers[v]]_vars

C4_Witness ==
    /\ last.kind = "RegisterVoiceData"
    /\ last.ssrc \in dropped
    /\ ~last.accepted
    /\ \E s \in Ssrcs \ {last.ssrc} : ssrc_map[s] \in whitelist

\* toward zero: m is s/2 exactly, or the half nearer to zero when s is odd
RoundsTowardZero(s, m) ==
    \/ 2 * m = s
    \/ s > 0 /\ 2 * m = s - 1
    \/ s < 0 /\ 2 * m = s + 1

\* C5: a packet of n interleaved samples gives floor(n/2) mono samples, the
\* k-th being the sum of the k-th pair halved toward zero; the sum fits in
\* 32 bits and the result in 16 bits.
C5_Downmix ==
    mono.done =>
        /\ Len(mono.out) = Len(packet_audio) \div 2
        /\ \A k \in DOMAIN mono.out :
              LET s == packet_audio[2 * k - 1] + packet_audio[2 * k] IN
              /\ I32Min <= s /\ s <= I32Max
              /\ RoundsTowardZero(s, mono.out[k])
              /\ I16Min <= mono.out[k] /\ mono.out[k] <= I16Max

C5_Witness ==
    /\ mono.done
    /\ Len(packet_audio) = 3
    /\ packet_audio[1] + packet_audio[2] < 0
    /\ (packet_audio[1] + packet_audio[2]) % 2 = 1
    /\ Len(mono.out) = 1

\* C7: the data of a download is the buffer as it was when the GetData was
\* dequeued: it holds no sample of a packet handled after the download was
\* issued, a reply once sent never changes, GetData leaves every buffer as
\* it is, and two GetData for one user processed in a row answer the same.
C7_GetDataSnapshot ==
    /\ [](\A t \in EventIds :
            (tasks[t].kind = "download" /\ replies[t].state = "sent") =>
                /\ \A i \in DOMAIN replies[t].stamps : replies[t].stamps[i] < t
                /\ (tasks[t].pc = "done" /\ replies[t].some) =>
                       tasks[t].out.data = replies[t].data)
    /\ [][\A t \in EventIds : replies[t].state = "sent" => replies'[t] = replies[t]]_vars
    /\ [][(Dequeues /\ Head(queue).kind = "GetData") =>
            LET u == Head(queue).user
                r == replies'[Head(queue).tx]
            IN  /\ buffers' = buffers
                /\ r.state = "sent"
                /\ r.some = (buffers[u].present /\ buffers[u].data # <<>>)
                /\ r.some => r.data = buffers[u].data
                /\ (last.kind = "GetData" /\ last.user = u) =>
                       (r.some = replies[last.at].some /\ r.data = replies[last.at].data)]_vars

C7_Witness ==
    \E t \in EventIds :
        /\ tasks[t].kind = "download" /\ tasks[t].pc = "done"
        /\ tasks[t].out.data # <<>>
        /\ \E i \in DOMAIN buf_stamps[tasks[t].user] : buf_stamps[tasks[t].user][i] > t
        /\ buffers[tasks[t].user].data # tasks[t].out.data

\* C8: a download issued after the user's leave gets None, unless the user
\* joined again after the leave, and then every sample it gets came in after
\* the leave; RemoveFromWhitelist leaves the user out of the whitelist and
\* without a buffer, and changes nothing when the user is not whitelisted.
C8_OptOutDiscards ==
    /\ [](\A t \in EventIds :
            LET u == tasks[t].user IN
            (tasks[t].kind = "download" /\ tasks[t].pc = "done"
                /\ tasks[t].seen_leave[u] > 0) =>
                \/ ~replies[t].some /\ tasks[t].out.text = "No voice data found"
                \/ /\ tasks[t].seen_join[u] > tasks[t].seen_leave[u]
                   /\ \A i \in DOMAIN replies[t].stamps :
                         replies[t].stamps[i] > tasks[t].seen_leave[u])
    /\ [][(Dequeues /\ Head(queue).kind = "RemoveFromWhitelist") =>
            /\ Head(queue).user \notin whitelist'
            /\ ~buffers'[Head(queue).user].present
            /\ Head(queue).user \notin whitelist =>
                  (whitelist' = whitelist /\ buffers' = buffers /\ ssrc_map' = ssrc_map)]_vars

C8_Witness ==
    \E t \in EventIds :
        LET u == tasks[t].user IN
        /\ tasks[t].kind = "download" /\ tasks[t].pc = "done"
        /\ tasks[t].out.text = "No voice data found"
        /\ accepted_at[u] > 0
        /\ accepted_at[u] < tasks[t].seen_leave[u]

\* C9: the whitelist a list command gets holds every user whose latest
\* command before it was a join and no user whose latest was a leave; such a
\* joined user who is a member of the guild is mentioned in the reply.
C9_WhitelistReadsFollowWrites ==
    \A t \in EventIds :
        (tasks[t].kind = "list" /\ replies[t].state = "sent") =>
            \A u \in Users :
                /\ tasks[t].seen_join[u] > tasks[t].seen_leave[u] =>
                      /\ u \in replies[t].set
                      /\ (tasks[t].pc = "done" /\ u \in GuildMembers(tasks[t].guild)) =>
                            u \in tasks[t].out.mentions
                /\ tasks[t].seen_leave[u] > tasks[t].seen_join[u] =>
                      /\ u \notin replies[t].set
                      /\ tasks[t].pc = "done" => u \notin tasks[t].out.mentions

C9_Witness ==
    \E t \in EventIds, u \in Users :
        /\ tasks[t].kind = "list" /\ tasks[t].pc = "done"
        /\ tasks[t].seen_leave[u] > 0
        /\ tasks[t].seen_join[u] > tasks[t].seen_leave[u]
        /\ u \in tasks[t].out.mentions

\* C10: once a send to the recorder queue has failed, the process has
\* exited: the adapter handles no further event.
C10_SendFailureIsFatal ==
    [][(panic_log \cap SendFailures # {}) =>
          (n_events' = n_events /\ panic_log' = panic_log)]_vars

\* C6: when the handler of a voice-state update runs and the bot is the
\* only member of the voice channel the old or the new state names, the bot
\* is disconnected from that guild's voice connection when the handler ends.
C6_AutoLeave ==
    [][\A h \in pending \ pending' :
          \A c \in {h.old, h.new} \ {None} :
              (/\ ChannelKind(c) = "Voice"
               /\ {m \in VoiceMembers(h.g) : voice_states[h.g][m] = c} = {Bot})
              => conn'[h.g] = None]_vars

C6_Witness ==
    /\ handled.left
    /\ handled.new = None
    /\ handled.old # None
    /\ conn[handled.g] = None
    /\ voice_states[handled.g][Bot] = handled.old
    /\ \A m \in VoiceMembers(handled.g) \ {Bot} : voice_states[handled.g][m] = None

\* C11: a click on a sound button in a guild where the bot has no voice
\* connection is answered with a message the user sees, and nothing is
\* submitted for playback.
C11_ClickWithoutVoice ==
    [][\A g \in Guilds : \A c \in ClickIds :
          (ButtonClick(g, c) /\ UlidFromString(c).ok /\ conn[g] = None)
          => (sound_out'.reply # "" /\ ~sound_out'.submitted)]_vars

RECURSIVE Concat(_)
\* the sequences of a sequence, joined in order
Concat(ss) == IF ss = <<>> THEN <<>> ELSE Head(ss) \o Concat(Tail(ss))

\* the ids of the sounds of a guild in the order list() gives them
ListingIds(cat, guild) ==
    LET l == SbList(cat, guild)
        ss == Concat([k \in DOMAIN l |-> l[k].sounds])
    IN  [i \in DOMAIN ss |-> ss[i].id]

\* the custom_ids of the buttons of a sequence of messages, in order
ButtonIds(messages) ==
    LET cs == SelectSeq(Concat(Concat(messages)), LAMBDA c : c.kind = "button")
    IN  [i \in DOMAIN cs |-> cs[i].custom_id]

\* C13: delete of an existing (guild, name) removes that record and its
\* file and nothing else, the guild's listing is the old one without that
\* sound, and a sounds command shows the listing as it is then (an id is
\* never given twice, so a deleted sound does not return); delete of a name
\* the guild does not have replies NotFound and changes nothing.
C13_Delete ==
    /\ [][\A name \in {"n1", "n2"} :
            DeleteCmd("g1", name) =>
               LET hit == {i \in DOMAIN catalog :
                             catalog[i].guild = "g1" /\ catalog[i].name = name}
               IN  IF hit # {}
                   THEN LET id == catalog[CHOOSE i \in hit : TRUE].id IN
                        /\ sound_out'.reply = "Deleted. *(for ever)*"
                        /\ Len(catalog') = Len(catalog) - 1
                        /\ \A i \in DOMAIN catalog \ hit :
                              \E j \in DOMAIN catalog' : catalog'[j] = catalog[i]
                        /\ ListingIds(catalog', "g1") =
                              SelectSeq(ListingIds(catalog, "g1"), LAMBDA x : x # id)
                        /\ ListingIds(catalog', "g2") = ListingIds(catalog, "g2")
                        /\ blobs[id] # NoBlob
                        /\ blobs' = [blobs EXCEPT ![id] = NoBlob]
                   ELSE /\ sound_out'.reply = "NotFound"
                        /\ catalog' = catalog
                        /\ blobs' = blobs]_vars
    /\ [][\A g \in Guilds :
            SoundsCmd(g) =>
               ButtonIds(sound_out'.messages) =
                  [i \in DOMAIN ListingIds(catalog, g) |->
                      UlidToString(ListingIds(catalog, g)[i])]]_vars
    /\ [][\A i \in DOMAIN catalog' :
            (\A j \in DOMAIN catalog : catalog[j].id # catalog'[i].id)
            => (\A k \in 1..next_id : catalog'[i].id # SoundIdAt(k))]_vars

C13_Witness ==
    /\ sound_out.handler = "delete"
    /\ sound_out.reply = "Deleted. *(for ever)*"
    /\ \E k \in 1..next_id :
          /\ blobs[SoundIdAt(k)] = NoBlob
          /\ \E i, j \in DOMAIN catalog :
                /\ catalog[i].guild = "g1" /\ catalog[j].guild = "g1"
                /\ catalog[i].group = catalog[j].group
                /\ catalog[i].index < catalog[j].index
                /\ catalog[i].id < SoundIdAt(k) /\ SoundIdAt(k) < catalog[j].id

\* the sounds of one group of a guild in the order list() gives them
GroupListing(cat, guild, group) ==
    LET l == SbList(cat, guild)
    IN  Concat([k \in DOMAIN l |-> IF l[k].group = group THEN l[k].sounds ELSE <<>>])

\* C14: no two sounds of a group share an index and list() gives each
\* group by ascending index; an upload at an occupied position puts the new
\* sound there and moves the group's sounds at or after it up by one, in
\* their old order, and an upload changes no sound of another group or guild.
C14_IndexShift ==
    /\ [](\A g \in Guilds :
            \A k \in DOMAIN SbList(catalog, g) :
               LET ss == SbList(catalog, g)[k].sounds IN
               \A i \in DOMAIN ss : \A j \in DOMAIN ss :
                  i < j => ss[i].index < ss[j].index)
    /\ [](\A i, j \in DOMAIN catalog :
            (/\ catalog[i].guild = catalog[j].guild
             /\ catalog[i].group = catalog[j].group
             /\ catalog[i].index = catalog[j].index) => i = j)
    /\ [][\A u \in IndexUploads :
            UploadCmd(u[1], GoodWav, SoundNames[next_id + 1], "blue", u[2], None, u[3])
            => LET old == GroupListing(catalog, u[1], u[2])
                   new == GroupListing(catalog', u[1], u[2])
                   slot == u[3].n - 1
                   ahead == Cardinality({i \in DOMAIN old : old[i].index < slot})
               IN  /\ \A i \in DOMAIN catalog :
                         (catalog[i].guild # u[1] \/ catalog[i].group # u[2])
                         => catalog'[i] = catalog[i]
                   /\ Len(new) = Len(old) + 1
                   /\ (u[3].some /\ \E i \in DOMAIN old : old[i].index = slot) =>
                         /\ new[ahead + 1].id = SoundIdAt(next_id + 1)
                         /\ new[ahead + 1].index = slot
                         /\ \A i \in 1..ahead : new[i] = old[i]
                         /\ \A i \in (ahead + 1)..Len(old) :
                               new[i + 1] = [old[i] EXCEPT !.index = @ + 1]]_vars

C14_Witness ==
    LET ss == GroupListing(catalog, "g1", "a") IN
    /\ sound_out.handler = "upload"
    /\ Len(ss) = 4
    /\ [i \in 1..4 |-> ss[i].id] =
          <<SoundIdAt(1), SoundIdAt(4), SoundIdAt(2), SoundIdAt(3)>>
    /\ [i \in 1..4 |-> ss[i].index] = <<0, 1, 2, 3>>

\* C15: a sound that get_wav served last at time t is in the cache while
\* less than sound_cache_duration has passed since t (so at t + D/2), with
\* t as its last access, and is out of the cache once 2 D have passed; the
\* bytes get_wav returns, from the cache or from the file, are the file's.
C15_CacheTtl ==
    /\ \A id \in SoundIdSet :
          accessed_at[id] >= 0 =>
             /\ 2 * (now - accessed_at[id]) <= SoundCacheDuration => cache[id].present
             /\ now - accessed_at[id] < SoundCacheDuration =>
                   (cache[id].present /\ cache[id].last = accessed_at[id])
             /\ now - accessed_at[id] >= 2 * SoundCacheDuration => ~cache[id].present
    /\ \A id \in SoundIdSet : cache[id].present => cache[id].bytes = CacheBlobs[id]
    /\ (sound_out.handler = "click" /\ sound_out.wav # NoBlob) =>
          sound_out.wav = CacheBlobs[sound_out.asked.id]

C15_Witness ==
    \E id \in SoundIdSet :
        /\ accessed_at[id] > 0
        /\ now - accessed_at[id] >= 2 * SoundCacheDuration
        /\ ~cache[id].present
        /\ \E other \in SoundIdSet \ {id} :
              /\ cache[other].present
              /\ accessed_at[other] > accessed_at[id]
              /\ 2 * (now - accessed_at[other]) <= SoundCacheDuration

\* the custom_id the button of a sound is rendered with
CustomIdOf(s) == Button(s.id, s.name, s.color, s.emoji).custom_id

\* C16: the buttons of a sounds listing and of an upload's reply carry the
\* text of their sound's id, which parses back to that id; two sounds never
\* have the same custom_id; a click with a sound's custom_id asks get_wav
\* for that sound's id.
C16_CustomIdRoundTrip ==
    /\ [](\A i \in DOMAIN catalog :
            /\ CustomIdOf(catalog[i]) = UlidToString(catalog[i].id)
            /\ UlidFromString(CustomIdOf(catalog[i])) = ParsedId(catalog[i].id)
            /\ \A j \in DOMAIN catalog :
                  CustomIdOf(catalog[i]) = CustomIdOf(catalog[j]) => i = j)
    /\ []((sound_out.handler = "sounds" /\ sound_out.messages # <<>>) =>
            LET shown == ButtonIds(sound_out.messages)
                ids == ListingIds(catalog, sound_out.guild)
            IN  /\ Len(shown) = Len(ids)
                /\ \A i \in DOMAIN shown : UlidFromString(shown[i]) = ParsedId(ids[i]))
    /\ []((sound_out.handler = "upload" /\ sound_out.messages # <<>>) =>
            LET shown == ButtonIds(sound_out.messages) IN
            /\ Len(shown) = 1
            /\ \E i \in DOMAIN catalog :
                  /\ catalog[i].guild = sound_out.guild
                  /\ catalog[i].name = sound_out.name
                  /\ UlidFromString(shown[1]) = ParsedId(catalog[i].id))
    /\ [][\A c \in ClickIds :
            ButtonClick("g1", c) =>
               \A i \in DOMAIN catalog :
                  CustomIdOf(catalog[i]) = c =>
                     /\ sound_out'.panic = ""
                     /\ sound_out'.asked = ParsedId(catalog[i].id)
                     /\ sound_out'.wav = GetWavBytes(cache, blobs, catalog[i].id)]_vars

C16_Witness ==
    /\ sound_out.handler = "click"
    /\ sound_out.custom_id = <<"1", "5">>
    /\ sound_out.asked = ParsedId(SoundIdAt(2))
    /\ sound_out.wav # NoBlob
    /\ \E i, j \in DOMAIN catalog :
          catalog[i].id = SoundIdAt(1) /\ catalog[j].id = SoundIdAt(2)

\* a step that sends the recorder nothing, leaves the Soundboard and the
\* voice connections as they are and starts no task that could reply
Untouched ==
    /\ UNCHANGED <<queue, replies, tasks, panic_log, whitelist, buffers, ssrc_map>>
    /\ UNCHANGED <<catalog, blobs, cache, next_id, accessed_at>>
    /\ UNCHANGED <<voice_states, registered, conn, calls, pending>>

\* C17: a list, listen, sounds, upload or delete command or a button click
\* that has no guild sends the recorder nothing, runs no Soundboard
\* operation, joins or leaves no voice connection and sends no reply.
C17_GuildlessIgnored ==
    /\ [][ListCmd(None) => (Untouched /\ UNCHANGED <<voice_out, sound_out>>)]_vars
    /\ [][Listen(None, "u1") => (Untouched /\ voice_out' = "" /\ UNCHANGED sound_out)]_vars
    /\ [][SoundsCmd(None) =>
            (Untouched /\ UNCHANGED voice_out
               /\ sound_out' = [NoSoundOut EXCEPT !.handler = "sounds"])]_vars
    /\ [][UploadCmd(None, GoodWav, "ding", "red", "Bell", None, NoInteger) =>
            (Untouched /\ UNCHANGED voice_out
               /\ sound_out' = [NoSoundOut EXCEPT !.handler = "upload"])]_vars
    /\ [][DeleteCmd(None, "ding") =>
            (Untouched /\ UNCHANGED voice_out
               /\ sound_out' = [NoSoundOut EXCEPT !.handler = "delete"])]_vars
    /\ [][ButtonClick(None, UlidToString(SoundIdAt(1))) =>
            (Untouched /\ UNCHANGED voice_out
               /\ sound_out' = [NoSoundOut EXCEPT !.handler = "click"])]_vars
    /\ [](sound_out.guild = None =>
            (/\ sound_out.reply = "" /\ sound_out.messages = <<>>
             /\ ~sound_out.deferred /\ ~sound_out.submitted
             /\ sound_out.panic = "" /\ sound_out.wav = NoBlob))

C17_Witness ==
    /\ sound_out = [NoSoundOut EXCEPT !.handler = "click"]
    /\ \E i \in DOMAIN catalog : catalog[i].id = SoundIdAt(1) /\ catalog[i].guild = "g1"
    /\ blobs[SoundIdAt(1)] # NoBlob
    /\ "g1" \in calls
    /\ n_events > 0 /\ queue = <<>> /\ \A t \in EventIds : tasks[t] = IdleTask

\* C18: the reply of a list command mentions the users that are in the
\* whitelist the recorder returned and are members of the command's guild,
\* no whitelisted user who is not a member, and is "*Nobody.*" exactly when
\* there is no such user.
C18_ListIntersection ==
    \A t \in EventIds :
        (tasks[t].kind = "list" /\ tasks[t].pc = "done") =>
           /\ tasks[t].out.mentions = replies[t].set \cap GuildMembers(tasks[t].guild)
           /\ \A u \in replies[t].set \ GuildMembers(tasks[t].guild) :
                 u \notin tasks[t].out.mentions
           /\ (tasks[t].out.text = "*Nobody.*") <=>
                 (replies[t].set \cap GuildMembers(tasks[t].guild) = {})

C18_Witness ==
    \E t, n \in EventIds :
        /\ tasks[t].kind = "list" /\ tasks[t].pc = "done"
        /\ replies[t].set = {"u1", "u2"}
        /\ "u2" \notin GuildMembers(tasks[t].guild)
        /\ tasks[t].out.mentions = {"u1"}
        /\ tasks[n].kind = "list" /\ tasks[n].pc = "done"
        /\ replies[n].set = {"u2"}
        /\ tasks[n].out.text = "*Nobody.*"

\* the positions in a queue of the whitelist mutations of a kind for a user
Mutations(q, kind, u) == {i \in DOMAIN q : q[i].kind = kind /\ q[i].user = u}

\* C19: join sends exactly one AddToWhitelist with the caller's id and
\* leave exactly one RemoveFromWhitelist with the caller's id; a step that
\* puts a whitelist mutation for u in the queue is u's join or leave; and u
\* enters the whitelist only when the recorder takes an AddToWhitelist(u),
\* leaves it only when it takes a RemoveFromWhitelist(u).
C19_OptInBySelf ==
    /\ [][\A u \in Users :
            (Join(u) => (/\ Len(queue') = Len(queue) + 1
                         /\ SubSeq(queue', 1, Len(queue)) = queue
                         /\ queue'[Len(queue')].kind = "AddToWhitelist"
                         /\ queue'[Len(queue')].user = u))]_vars
    /\ [][\A u \in Users :
            (Leave(u) => (/\ Len(queue') = Len(queue) + 1
                          /\ SubSeq(queue', 1, Len(queue)) = queue
                          /\ queue'[Len(queue')].kind = "RemoveFromWhitelist"
                          /\ queue'[Len(queue')].user = u))]_vars
    /\ [][\A u \in Users :
            /\ Cardinality(Mutations(queue', "AddToWhitelist", u)) >
                  Cardinality(Mutations(queue, "AddToWhitelist", u)) => Join(u)
            /\ Cardinality(Mutations(queue', "RemoveFromWhitelist", u)) >
                  Cardinality(Mutations(queue, "RemoveFromWhitelist", u)) => Leave(u)]_vars
    /\ [][\A u \in Users :
            /\ (u \notin whitelist /\ u \in whitelist') =>
                  (/\ queue # <<>> /\ queue' = Tail(queue)
                   /\ Head(queue).kind = "AddToWhitelist" /\ Head(queue).user = u)
            /\ (u \in whitelist /\ u \notin whitelist') =>
                  (/\ queue # <<>> /\ queue' = Tail(queue)
                   /\ Head(queue).kind = "RemoveFromWhitelist"
                   /\ Head(queue).user = u)]_vars
    /\ [](\A u \in Users : (u \in whitelist => join_at[u] > 0))

C19_Witness ==
    /\ whitelist = {"u1"}
    /\ join_at["u1"] > 0 /\ join_at["u2"] = 0
    /\ leave_at["u2"] > join_at["u1"]
    /\ queue = <<>>
    /\ sound_out.handler = "click" /\ sound_out.submitted

\* C20: a snapshot of S >= 1 samples is sent as ceil(S / C) attachments,
\* C = (MAX_FILE_SIZE - HEADER_SIZE) / 2; one file named {user}.wav when
\* S <= C, else files {user}-1.wav, {user}-2.wav, ... in buffer order; each
\* file is the WAV header for its own body followed by its piece.
C20_FileCountAndNames ==
    (files.done /\ Len(snapshot) >= 1) =>
        LET C == (MAX_FILE_SIZE - HEADER_SIZE) \div 2
            S == Len(snapshot)
            n == (S + C - 1) \div C
        IN  /\ Len(files.out) = n
            /\ S <= C => (n = 1 /\ files.out[1].filename = [user |-> "u1", part |-> 0])
            /\ S > C => \A i \in 1..n :
                           files.out[i].filename = [user |-> "u1", part |-> i]
            /\ \A i \in 1..n :
                  LET piece == SubSeq(snapshot, (i - 1) * C + 1, Min(i * C, S))
                      bytes == files.out[i].data
                  IN  /\ Len(bytes) = HEADER_SIZE + 2 * Len(piece)
                      /\ SubSeq(bytes, 1, HEADER_SIZE) = WavHeader(2 * Len(piece))
                      /\ BodySamples(bytes) = piece

C20_Witness ==
    /\ files.done
    /\ Len(snapshot) = 2 * ((MAX_FILE_SIZE - HEADER_SIZE) \div 2) + 1
    /\ Len(files.out) = 3
    /\ files.out[3].filename = [user |-> "u1", part |-> 3]
    /\ Len(files.out[3].data) = HEADER_SIZE + 2

\* the group of the sound whose button carries a custom_id
GroupOfButton(cat, custom_id) ==
    cat[CHOOSE i \in DOMAIN cat : UlidToString(cat[i].id) = custom_id].group

\* the rows of a message that hold buttons
SoundRows(message) == SelectSeq(message, LAMBDA row : row[1].kind = "button")

\* C21: every message of a sounds listing has at most ROWS_PER_MESSAGE
\* rows; a select-menu row is the first row of its message, is followed by
\* at most ROWS_PER_MESSAGE - 1 sound rows and opens the first message of
\* its group only; a sound row has 1 to SOUNDS_PER_ROW buttons; the buttons
\* in the order sent are the sounds of the listing, each once, group by
\* group and in the order within the group.
C21_Rendering ==
    (sound_out.handler = "sounds" /\ sound_out.messages # <<>>) =>
        LET ms == sound_out.messages
            listing == SbList(catalog, sound_out.guild)
            sounds == Concat([k \in DOMAIN listing |-> listing[k].sounds])
            all == Concat(Concat(ms))
            shown == SelectSeq(all, LAMBDA c : c.kind = "button")
            menus == SelectSeq(all, LAMBDA c : c.kind = "select")
            opens(m) == ms[m][1][1].kind = "select"
            groupOf(m) == GroupOfButton(catalog, ms[m][Len(ms[m])][1].custom_id)
        IN  /\ \A m \in DOMAIN ms :
                  /\ Len(ms[m]) >= 1 /\ Len(ms[m]) <= ROWS_PER_MESSAGE
                  /\ Len(SoundRows(ms[m])) >= 1
                  /\ Len(SoundRows(ms[m])) <= ROWS_PER_MESSAGE - 1
                  /\ \A r \in DOMAIN ms[m] :
                        /\ Len(ms[m][r]) >= 1 /\ Len(ms[m][r]) <= SOUNDS_PER_ROW
                        /\ ms[m][r][1].kind = "select" => (r = 1 /\ Len(ms[m][r]) = 1)
                        /\ \A c \in DOMAIN ms[m][r] :
                              ms[m][r][c].kind = "button" =>
                                 GroupOfButton(catalog, ms[m][r][c].custom_id) = groupOf(m)
                  /\ opens(m) <=> (m = 1 \/ groupOf(m - 1) # groupOf(m))
                  /\ opens(m) => ms[m][1][1].label = groupOf(m)
            /\ [k \in DOMAIN menus |-> menus[k].label] =
                  [k \in DOMAIN listing |-> listing[k].group]
            /\ Len(shown) = Len(sounds)
            /\ \A i \in DOMAIN shown :
                  /\ shown[i].custom_id = UlidToString(sounds[i].id)
                  /\ shown[i].label = sounds[i].name

C21_Witness ==
    /\ sound_out.handler = "sounds"
    /\ Len(sound_out.messages) = 3
    /\ Len(sound_out.messages[1]) = ROWS_PER_MESSAGE
    /\ Len(sound_out.messages[2]) = 1
    /\ Len(sound_out.messages[2][1]) = 1
    /\ sound_out.messages[3][1][1].kind = "select"
    /\ Len(sound_out.messages[3]) = 3
    /\ Len(sound_out.messages[3][3]) = 2

\* the queue holds the request whose reply channel is t
Requested(t) ==
    \E i \in DOMAIN queue : queue[i].kind \in {"GetData", "GetWhitelist"} /\ queue[i].tx = t

\* C22: while the recorder is scheduled, every queued action is eventually
\* taken from the queue, whatever is queued around it and also when the
\* receiver of an earlier request was dropped; taking a GetData or a
\* GetWhitelist writes its reply channel, which is written once; a download
\* that keeps waiting ends with attachments or with "No voice data found",
\* a list with its reply.
C22_RequestsAnswered ==
    /\ \A k \in EventIds :
          (\E i \in DOMAIN queue : queue[i].at = k) ~>
             ~(\E i \in DOMAIN queue : queue[i].at = k)
    /\ [][\A t \in EventIds :
            /\ (Requested(t) /\ ~Requested(t)') => replies'[t].state = "sent"
            /\ replies[t].state = "sent" => replies'[t] = replies[t]
            /\ replies'[t] # replies[t] => (Requested(t) /\ ~Requested(t)')]_vars
    /\ \A t \in EventIds :
          (tasks[t].pc = "waiting") ~>
             \/ tasks[t].pc = "dropped"
             \/ /\ tasks[t].pc = "done"
                /\ tasks[t].kind = "download" =>
                      \/ tasks[t].out.files # <<>>
                      \/ tasks[t].out.text = "No voice data found"

C22_Witness ==
    \E t, n \in EventIds :
        /\ tasks[t].kind = "download" /\ tasks[t].pc = "done"
        /\ tasks[t].out.files # <<>>
        /\ t > n
        /\ tasks[n].pc = "dropped" /\ replies[n].state = "sent"

\* the components of a sequence of messages, in the order rendered
ComponentsOf(messages) == Concat(Concat(messages))

\* C23: the custom_id of every component the sounds command and the upload
\* reply render parses as a sound id, and an interaction that carries the
\* custom_id of a rendered component does not end in "Invalid sound id".
C23_RenderedIdsParse ==
    /\ \A k \in DOMAIN ComponentsOf(sound_out.messages) :
          UlidFromString(ComponentsOf(sound_out.messages)[k].custom_id).ok
    /\ (sound_out.handler = "click" /\ sound_out.panic = "Invalid sound id") =>
          /\ sound_out.custom_id # SelectMenu("Bell").custom_id
          /\ \A i \in DOMAIN catalog : sound_out.custom_id # CustomIdOf(catalog[i])

\* C24: a voice-state update's handler requests leave only while the bot
\* has a voice connection in the guild, so each connection is left by one
\* request, and no request ends in "Voice disconnection failure".
C24_LeaveOncePerConnection ==
    /\ [][\A h \in pending \ pending' :
            handled'.left => conn[h.g] # None]_vars
    /\ [](voice_out # "Voice disconnection failure")

C26_IndexPassedIsNMinusOne ==
    [][\A opt \in IndexOptionValues :
         UploadCmd("g1", GoodWav, SoundNames[next_id + 1], "blue", "a", None, opt)
         => LET new == catalog'[Len(catalog')] IN
            IF opt.some
            THEN /\ IndexArg(opt) = SomeIndex(opt.n - 1)
                 /\ opt.n - 1 >= 0
                 /\ new.index = opt.n - 1
            ELSE IndexArg(opt) = NoIndex]_vars

=============================================================================
